---- MODULE Spec2Model ----
(***************************************************************************)
(* ShellTM32: interrupt-driven serial transport (ttys), console line       *)
(* editor and command dispatcher.  The main loop is one thread of control  *)
(* (pc, loc); the UART interrupt handler preempts it between any two of    *)
(* its accesses to shared memory and runs to completion.                   *)
(***************************************************************************)
EXTENDS Integers, Sequences, FiniteSets, TLC

\* ------------------------------------------------------------------------
\* Program constants
\* ------------------------------------------------------------------------
SHELL_ERR_ARG == -1
SHELL_ERR_RESOURCE == -2
SHELL_ERR_BAD_CMD == -4
SHELL_ERR_BUF_OVERRUN == -5
SHELL_ERR_BAD_INSTANCE == -6

TTYS_INSTANCE_UART1 == 0
TTYS_INSTANCE_UART5 == 1
TTYS_INSTANCE_UART6 == 2
TTYS_NUM_INSTANCES == 3

UART1_FD == 1
UART5_FD == 3
UART6_FD == 4

\* Characters are their ASCII codes.
NL == 10
CR == 13
BS == 8
DEL == 127
BEL == 7
SPACE == 32
LOG_TOGGLE_CHAR == 12

\* ------------------------------------------------------------------------
\* Bounds of the model
\* ------------------------------------------------------------------------
\* Ring sizes: the source has 80 (RX) and 1024 (TX); the rings are modelled
\* at a reduced size, which keeps every index computation of the code (the
\* uint16_t indices never come near 2^16 at either size).
TTYS_RX_BUF_SIZE == 3
TTYS_TX_BUF_SIZE == 3
\* Number of ttys_putc calls (direct or through _write) in one behaviour.
MaxPut == 4
\* Longest buffer handed to _write.
MaxWriteLen == 2
\* Number of ttys_putc calls and of ttys_init calls while the program boots.
MaxBootPut == 2
MaxInit == 2
\* Number of bytes the receive hardware is offered in one behaviour.
MaxRx == 4
\* Number of ttys_getc calls in one behaviour.
MaxGet == 5

Instances == 0 .. (TTYS_NUM_INSTANCES - 1)
\* Instance ids a caller may pass: the valid ones and one out of range.
InstanceArgs == 0 .. TTYS_NUM_INSTANCES
RegBases == {"USART1", "UART5", "USART6"}
\* Bytes the main loop transmits and bytes the line delivers.
TxChars == {97, NL}
RxChars == {97, 98}
\* The local `char c` of a caller before anything was stored in it.
NoChar == -1

VARIABLES
    ttys_states,   \* static struct ttys_state ttys_states[TTYS_NUM_INSTANCES]
    uart,          \* USART registers: CR1 enables, ISR flags, RDR
    nvic,          \* per UART: its IRQ is enabled in the NVIC
    primask,       \* TRUE once Error_Handler ran __disable_irq(); while(1)
    pc,            \* position of the main loop
    loc,           \* locals of the call the main loop is in
    ret,           \* what the last completed main-loop call returned
    hist,          \* history: bytes through TDR/RDR, accepted and delivered
    input,         \* the bytes the line will deliver, when they are scripted
    console,       \* static struct console_state state (console.c)
    log_active,    \* bool _log_active (log.c)
    client_info,   \* static const struct cmd_client_info* client_info[] (cmd.c)
    log_levels,    \* the log_level variable of each client module
    obs            \* observations: cmd_execute calls, handler calls, output

appVars == <<input, console, log_active, client_info, log_levels, obs>>
vars == <<ttys_states, uart, nvic, primask, pc, loc, ret, hist,
          input, console, log_active, client_info, log_levels, obs>>

\* ------------------------------------------------------------------------
\* Sequence helpers
\* ------------------------------------------------------------------------
IsPrefix(s, t) ==
    /\ Len(s) <= Len(t)
    /\ \A i \in 1 .. Len(s) : s[i] = t[i]

SeqsUpTo(S, n) ==
    UNION {[1 .. k -> S] : k \in 0 .. n}

\* ------------------------------------------------------------------------
\* cmd: registry and dispatcher
\* ------------------------------------------------------------------------
\* Strings are sequences of character codes.
\* The string literals of cmd.c and of the client modules.
STR ==
    [star |-> <<42>>,
     help |-> <<104, 101, 108, 112>>,
     qmark |-> <<63>>,
     log |-> <<108, 111, 103>>,
     dio |-> <<100, 105, 111>>,
     status |-> <<115, 116, 97, 116, 117, 115>>,
     get |-> <<103, 101, 116>>,
     set |-> <<115, 101, 116>>,
     tmr |-> <<116, 109, 114>>,
     test |-> <<116, 101, 115, 116>>,
     TMR |-> <<84, 77, 82>>,
     led |-> <<108, 101, 100>>,
     adc |-> <<97, 100, 99>>,
     pwm |-> <<112, 119, 109>>]

\* static const char* log_level_names[] = { LOG_LEVEL_NAMES_CSV };
log_level_names ==
    <<<<111, 102, 102>>,
      <<101, 114, 114, 111, 114>>,
      <<119, 97, 114, 110, 105, 110, 103>>,
      <<105, 110, 102, 111>>,
      <<100, 101, 98, 117, 103>>,
      <<116, 114, 97, 99, 101>>>>

LOG_DEFAULT == 3

MAX_CMD_TOKENS == 10

\* Slots of the client table; the source has 10.
CMD_MAX_CLIENTS == 3

\* The client modules linked into the program: a name, the commands with
\* the status their handler returns, and whether log_level_ptr is set.  A
\* pointer to a client is its index here; 0 is NULL.  "dio" is the example
\* module: its get and set handlers return SHELL_ERR_BAD_CMD when their
\* arguments do not parse, as with every line used here; "tmr" is the client cmd.h describes, here without a log level;
\* "TMR" is another registration under the same name, with a log level;
\* the others are further clients: "adc" also has commands named as the
\* dispatcher's own words, "pwm" has no command at all, and the last three
\* are registered under the names "help", "?" and "*".
Clients ==
    <<[name |-> STR.dio,
       cmds |-> <<[name |-> STR.status, rc |-> 0],
                  [name |-> STR.get, rc |-> SHELL_ERR_BAD_CMD],
                  [name |-> STR.set, rc |-> SHELL_ERR_BAD_CMD]>>,
       has_log |-> TRUE],
      [name |-> STR.tmr,
       cmds |-> <<[name |-> STR.status, rc |-> 0],
                  [name |-> STR.test, rc |-> SHELL_ERR_BAD_CMD]>>,
       has_log |-> FALSE],
      [name |-> STR.TMR,
       cmds |-> <<[name |-> STR.status, rc |-> 0],
                  [name |-> STR.test, rc |-> 0]>>,
       has_log |-> TRUE],
      [name |-> STR.led,
       cmds |-> <<[name |-> STR.status, rc |-> 0]>>,
       has_log |-> TRUE],
      [name |-> STR.adc,
       cmds |-> <<[name |-> STR.status, rc |-> SHELL_ERR_RESOURCE],
                  [name |-> STR.help, rc |-> 0],
                  [name |-> STR.qmark, rc |-> 0],
                  [name |-> STR.log, rc |-> 0]>>,
       has_log |-> FALSE],
      [name |-> STR.pwm,
       cmds |-> <<>>,
       has_log |-> FALSE],
      [name |-> STR.help,
       cmds |-> <<[name |-> STR.status, rc |-> 0]>>,
       has_log |-> FALSE],
      [name |-> STR.qmark,
       cmds |-> <<[name |-> STR.status, rc |-> 0]>>,
       has_log |-> FALSE],
      [name |-> STR.star,
       cmds |-> <<[name |-> STR.status, rc |-> 0]>>,
       has_log |-> FALSE]>>

ClientIds == 1 .. Len(Clients)

isspace(c) == c = SPACE \/ (c >= 9 /\ c <= 13)

isprint(c) == c >= 32 /\ c <= 126

tolower(c) == IF c >= 65 /\ c <= 90 THEN c + 32 ELSE c

\* A comparison that tells upper case from lower case.
strcaseeq_exact(a, b) ==
    a = b

\* strcasecmp(a, b) == 0
strcaseeq(a, b) ==
    /\ Len(a) = Len(b)
    /\ \A i \in 1 .. Len(a) : tolower(a[i]) = tolower(b[i])

\* cmd_init: memset(client_info, 0, sizeof(client_info))
cmd_init ==
    [idx \in 0 .. (CMD_MAX_CLIENTS - 1) |-> 0]

\* A search that runs from the last slot down to idx.
RegisterSlot_downward(ci, k, idx) ==
    LET free == {m \in idx .. (CMD_MAX_CLIENTS - 1) :
                    ci[m] = 0 \/ strcaseeq(Clients[ci[m]].name, Clients[k].name)}
    IN IF free = {}
       THEN CMD_MAX_CLIENTS
       ELSE CHOOSE m \in free : \A j \in free : j <= m

\* The slot cmd_register takes: the first that is empty or holds the name.
RECURSIVE RegisterSlot(_, _, _)
RegisterSlot(ci, k, idx) ==
    IF idx >= CMD_MAX_CLIENTS
    THEN CMD_MAX_CLIENTS
    ELSE IF ci[idx] = 0 \/ strcaseeq(Clients[ci[idx]].name, Clients[k].name)
    THEN idx
    ELSE RegisterSlot(ci, k, idx + 1)

\* A registration that takes slot 0 when no slot is free.
cmd_register_evict(ci, k) ==
    LET idx == RegisterSlot(ci, k, 0)
    IN [rc |-> 0, ci |-> [ci EXCEPT ![idx % CMD_MAX_CLIENTS] = k]]

cmd_register(ci, k) ==
    LET idx == RegisterSlot(ci, k, 0)
    IN IF idx < CMD_MAX_CLIENTS
       THEN [rc |-> 0, ci |-> [ci EXCEPT ![idx] = k]]
       ELSE [rc |-> SHELL_ERR_RESOURCE, ci |-> ci]

\* A level lookup that tells upper case from lower case.
log_level_int_exact(level_name) ==
    LET hits == {l \in 1 .. Len(log_level_names) :
                    level_name = log_level_names[l]}
    IN IF hits = {}
       THEN -1
       ELSE (CHOOSE l \in hits : \A m \in hits : l <= m) - 1

\* Level names to numbers: the first name that matches, or -1.
log_level_int(level_name) ==
    LET hits == {l \in 1 .. Len(log_level_names) :
                    strcaseeq(level_name, log_level_names[l])}
    IN IF hits = {}
       THEN -1
       ELSE (CHOOSE l \in hits : \A m \in hits : l <= m) - 1

\* A skip of one whitespace character at most.
SkipSpace_one(bfr, p) ==
    IF bfr[p] # 0 /\ isspace(bfr[p]) THEN p + 1 ELSE p

\* while (*p && isspace(*p)) p++;
RECURSIVE SkipSpace(_, _)
SkipSpace(bfr, p) ==
    IF bfr[p] # 0 /\ isspace(bfr[p]) THEN SkipSpace(bfr, p + 1) ELSE p

TokenEnd_one(bfr, p) ==
    p + 1

\* while (*p && !isspace(*p)) p++;
RECURSIVE TokenEnd(_, _)
TokenEnd(bfr, p) ==
    IF bfr[p] # 0 /\ ~isspace(bfr[p]) THEN TokenEnd(bfr, p + 1) ELSE p

\* The C string that starts at bfr[p].
RECURSIVE CStr(_, _)
CStr(bfr, p) ==
    IF bfr[p] = 0 THEN <<>> ELSE <<bfr[p]>> \o CStr(bfr, p + 1)

\* The tokenizing loop of cmd_execute: starts holds the offsets stored in
\* tokens[], bfr the buffer with the terminators written so far.  Tokenize
\* is the top of the loop with p anywhere, TokenizeAt has p at the first
\* non-space character q, TokenizeCut has found the token's end e.
RECURSIVE Tokenize(_, _, _)
RECURSIVE TokenizeAt(_, _, _)
RECURSIVE TokenizeCut(_, _, _, _)
TokenizeCut(bfr, q, e, starts) ==
    IF bfr[e] # 0
    THEN Tokenize([bfr EXCEPT ![e] = 0], e + 1, Append(starts, q))
    ELSE [ok |-> TRUE, bfr |-> bfr, starts |-> Append(starts, q)]

\* A tokenizer that stops one token late.
TokenizeAt_late(bfr, q, starts) ==
    IF bfr[q] = 0
    THEN [ok |-> TRUE, bfr |-> bfr, starts |-> starts]
    ELSE IF Len(starts) > MAX_CMD_TOKENS
    THEN [ok |-> FALSE, bfr |-> bfr, starts |-> starts]
    ELSE TokenizeCut(bfr, q, TokenEnd(bfr, q), starts)

TokenizeAt(bfr, q, starts) ==
    IF bfr[q] = 0
    THEN [ok |-> TRUE, bfr |-> bfr, starts |-> starts]
    ELSE IF Len(starts) >= MAX_CMD_TOKENS
    THEN [ok |-> FALSE, bfr |-> bfr, starts |-> starts]
    ELSE TokenizeCut(bfr, q, TokenEnd(bfr, q), starts)

Tokenize(bfr, p, starts) ==
    TokenizeAt(bfr, SkipSpace(bfr, p), starts)

\* tokens[] as strings.
TokensOf(t) ==
    [i \in 1 .. Len(t.starts) |-> CStr(t.bfr, t.starts[i])]

\* The clients the dispatch loops visit: the slots up to the first NULL.
RECURSIVE VisitedFrom(_, _)
VisitedFrom(ci, idx) ==
    IF idx >= CMD_MAX_CLIENTS \/ ci[idx] = 0
    THEN <<>>
    ELSE <<ci[idx]>> \o VisitedFrom(ci, idx + 1)

Msg(kind) == [k |-> kind, c |-> 0]

ExecResult(rc, lv, handled, out) ==
    [rc |-> rc, lv |-> lv, handled |-> handled, out |-> out]

\* Every client among seen gets the level.
SetAllLevels_any(lv, seen, level) ==
    [k \in DOMAIN lv |->
        IF \E i \in 1 .. Len(seen) : seen[i] = k THEN level ELSE lv[k]]

\* The clients among seen that expose a log level get the level.
SetAllLevels(lv, seen, level) ==
    [k \in DOMAIN lv |->
        IF Clients[k].has_log /\ \E i \in 1 .. Len(seen) : seen[i] = k
        THEN level ELSE lv[k]]

\* A wildcard log that writes the levels before it looks at the name.
ExecWildcardLog_late(ci, lv, n, level) ==
    IF n = 3 /\ level < 0
    THEN ExecResult(SHELL_ERR_ARG, SetAllLevels(lv, VisitedFrom(ci, 0), level),
                    <<>>, <<Msg("invalid_log_level")>>)
    ELSE IF n > 3
    THEN ExecResult(SHELL_ERR_ARG, lv, <<>>, <<Msg("invalid_arguments")>>)
    ELSE IF n = 3
    THEN ExecResult(0, SetAllLevels(lv, VisitedFrom(ci, 0), level), <<>>, <<>>)
    ELSE ExecResult(0, lv, <<>>, <<Msg("log_levels")>>)

\* "* log ..." with level the result of log_level_int on the third token,
\* or 0 when there is none.
ExecWildcardLog(ci, lv, n, level) ==
    IF n = 3 /\ level < 0
    THEN ExecResult(SHELL_ERR_ARG, lv, <<>>, <<Msg("invalid_log_level")>>)
    ELSE IF n > 3
    THEN ExecResult(SHELL_ERR_ARG, lv, <<>>, <<Msg("invalid_arguments")>>)
    ELSE IF n = 3
    THEN ExecResult(0, SetAllLevels(lv, VisitedFrom(ci, 0), level), <<>>, <<>>)
    ELSE ExecResult(0, lv, <<>>, <<Msg("log_levels")>>)

\* A wildcard that refuses every second token but log.
ExecWildcard_strict(ci, lv, tokens) ==
    IF Len(tokens) < 2 \/ ~strcaseeq(tokens[2], STR.log)
    THEN ExecResult(SHELL_ERR_BAD_CMD, lv, <<>>, <<Msg("wildcard_missing_command")>>)
    ELSE ExecWildcardLog(ci, lv, Len(tokens),
                         IF Len(tokens) = 3 THEN log_level_int(tokens[3]) ELSE 0)

\* "* ..." commands.
ExecWildcard(ci, lv, tokens) ==
    IF Len(tokens) < 2
    THEN ExecResult(SHELL_ERR_BAD_CMD, lv, <<>>, <<Msg("wildcard_missing_command")>>)
    ELSE IF ~strcaseeq(tokens[2], STR.log)
    THEN ExecResult(0, lv, <<>>, <<>>)
    ELSE ExecWildcardLog(ci, lv, Len(tokens),
                         IF Len(tokens) = 3 THEN log_level_int(tokens[3]) ELSE 0)

\* "<client> log [level]" with level the result of log_level_int on the
\* third token, if there is one.
ExecClientLog(k, lv, n, level) ==
    IF ~Clients[k].has_log
    THEN ExecResult(0, lv, <<>>, <<>>)
    ELSE IF n < 3
    THEN ExecResult(0, lv, <<>>, <<Msg("log_level")>>)
    ELSE IF level < 0
    THEN ExecResult(SHELL_ERR_ARG, lv, <<>>, <<Msg("invalid_log_level")>>)
    ELSE ExecResult(0, [lv EXCEPT ![k] = level], <<>>, <<>>)

\* The search of the client's command list: the handler is called with
\* num_tokens and tokens, and 0 is returned whatever the handler returned.
ExecCommand(k, lv, n, argv) ==
    LET hits == {j \in 1 .. Len(Clients[k].cmds) :
                    strcaseeq(argv[2], Clients[k].cmds[j].name)}
    IN IF hits # {}
       THEN ExecResult(0, lv,
                       <<[client |-> k,
                          cmd |-> CHOOSE j \in hits : \A m \in hits : j <= m,
                          argc |-> n, argv |-> argv]>>,
                       <<>>)
       ELSE ExecResult(SHELL_ERR_BAD_CMD, lv, <<>>, <<Msg("no_such_command")>>)

\* "<client> help": a line per command of the client, which the client's
\* pointer stands for, then the help of the log command and the level names
\* if the client exposes its level.
ExecClientHelp(k, lv) ==
    ExecResult(0, lv, <<>>,
               <<[k |-> "client_help", c |-> k]>> \o
               (IF Clients[k].has_log
                THEN <<Msg("log_help"), Msg("log_levels_are")>>
                ELSE <<>>))

\* A client whose own commands are searched before the words help, ? and
\* log are looked at.
ExecClientArgv_own_first(k, lv, n, argv) ==
    IF \E j \in 1 .. Len(Clients[k].cmds) :
           strcaseeq(argv[2], Clients[k].cmds[j].name)
    THEN ExecCommand(k, lv, n, argv)
    ELSE IF strcaseeq(argv[2], STR.help) \/ strcaseeq(argv[2], STR.qmark)
    THEN ExecClientHelp(k, lv)
    ELSE IF strcaseeq(argv[2], STR.log)
    THEN ExecClientLog(k, lv, n, IF n < 3 THEN 0 ELSE log_level_int(argv[3]))
    ELSE ExecResult(SHELL_ERR_BAD_CMD, lv, <<>>, <<Msg("no_such_command")>>)

\* "<client> ..." once the client k is found; argv is tokens with the
\* dummy tokens[1] = "" when there is one token only.
ExecClientArgv(k, lv, n, argv) ==
    IF strcaseeq(argv[2], STR.help) \/ strcaseeq(argv[2], STR.qmark)
    THEN ExecClientHelp(k, lv)
    ELSE IF strcaseeq(argv[2], STR.log)
    THEN ExecClientLog(k, lv, n, IF n < 3 THEN 0 ELSE log_level_int(argv[3]))
    ELSE ExecCommand(k, lv, n, argv)

ExecClient(k, lv, tokens) ==
    ExecClientArgv(k, lv, Len(tokens),
                   IF Len(tokens) = 1 THEN <<tokens[1], <<>>>> ELSE tokens)

\* The first visited client whose name is the token, or 0.
FindClient(seen, name) ==
    LET found == {i \in 1 .. Len(seen) : strcaseeq(name, Clients[seen[i]].name)}
    IN IF found = {}
       THEN 0
       ELSE seen[CHOOSE i \in found : \A m \in found : i <= m]

\* A lookup that takes an unknown client name for success.
ExecFound_lenient(k, lv, tokens) ==
    IF k # 0
    THEN ExecClient(k, lv, tokens)
    ELSE ExecResult(0, lv, <<>>, <<>>)

ExecFound(k, lv, tokens) ==
    IF k # 0
    THEN ExecClient(k, lv, tokens)
    ELSE ExecResult(SHELL_ERR_BAD_CMD, lv, <<>>, <<Msg("no_such_command")>>)

\* Every visited client gets a line.
HelpLines_all(seen) ==
    [i \in 1 .. Len(seen) |-> [k |-> "help_client", c |-> seen[i]]]

\* The lines of the top-level help: one for each visited client that has
\* commands, with its name, its command names and "log" if it exposes its
\* level, all of which the client's pointer stands for.
HelpLines(seen) ==
    LET listed == SelectSeq(seen, LAMBDA k : Len(Clients[k].cmds) # 0)
    IN [i \in 1 .. Len(listed) |-> [k |-> "help_client", c |-> listed[i]]]

\* "help" and "?".
ExecHelp(lv, seen) ==
    ExecResult(0, lv, <<>>, HelpLines(seen) \o <<Msg("log_levels_are")>>)

\* cmd_execute after the tokenizing loop.
ExecTokens(ci, lv, ok, tokens) ==
    IF ~ok
    THEN ExecResult(SHELL_ERR_BAD_CMD, lv, <<>>, <<Msg("too_many_arguments")>>)
    ELSE IF Len(tokens) = 0
    THEN ExecResult(0, lv, <<>>, <<>>)
    ELSE IF tokens[1] = STR.star
    THEN ExecWildcard(ci, lv, tokens)
    ELSE IF strcaseeq(STR.help, tokens[1]) \/ strcaseeq(STR.qmark, tokens[1])
    THEN ExecHelp(lv, VisitedFrom(ci, 0))
    ELSE ExecFound(FindClient(VisitedFrom(ci, 0), tokens[1]), lv, tokens)

ExecOutcome(t, tokens, r) ==
    [rc |-> r.rc, bfr |-> t.bfr, tokens |-> tokens, lv |-> r.lv,
     handled |-> r.handled, out |-> r.out]

ExecTokenized(ci, lv, t, tokens) ==
    ExecOutcome(t, tokens, ExecTokens(ci, lv, t.ok, tokens))

ExecLine(ci, lv, t) ==
    ExecTokenized(ci, lv, t, TokensOf(t))

\* cmd_execute(bfr) with the table ci and the clients' levels lv: the
\* status, the buffer as the tokenizer leaves it, the tokens, the levels
\* and the handler call made, if any.
cmd_execute(ci, lv, bfr) ==
    ExecLine(ci, lv, Tokenize(bfr, 0, <<>>))

\* ------------------------------------------------------------------------
\* console: the line editor
\* ------------------------------------------------------------------------
CONSOLE_CMD_BFR_SIZE == 80

\* static struct console_state state, as loaded (all zero).
ZeroConsole ==
    [cfg |-> [ttys_instance_id |-> 0],
     cmd_bfr |-> [i \in 0 .. (CONSOLE_CMD_BFR_SIZE - 1) |-> 0],
     num_cmd_bfr_chars |-> 0,
     start_of_line |-> FALSE]

console_get_default_cfg ==
    [ttys_instance_id |-> TTYS_INSTANCE_UART1]

\* console_init(&cfg) with a non-NULL cfg.
console_init(cfg) ==
    [ZeroConsole EXCEPT !.cfg = cfg, !.start_of_line = TRUE]

\* What the program has done that a user can see: the calls of
\* cmd_execute (the line handed over, its tokens, its status), the handler
\* calls, the prompts printed, what the last step printed, and the calls
\* of cmd_register with their results, and the latest call of
\* cmd_parse_args with its result.  poll
\* remembers how the latest console_run call found the RX ring: the bytes
\* buffered, and how many bytes had been received and taken before.
NoObs ==
    [execs |-> <<>>, handled |-> <<>>, prompts |-> 0, out |-> <<>>,
     poll |-> [k |-> 0, rdr |-> 0, got |-> 0], regs |-> <<>>,
     parse |-> <<>>]

Echo(c) == [k |-> "char", c |-> c]

\* The result of one byte of console_run's loop body.
ByteResult(con, la, lv, execs, handled, out) ==
    [con |-> con, la |-> la, lv |-> lv, execs |-> execs, handled |-> handled,
     out |-> out]

\* The line is terminated in place.
Terminated(con) ==
    [con.cmd_bfr EXCEPT ![con.num_cmd_bfr_chars] = 0]

NewlineDone_noflag(con, la, line, r) ==
    ByteResult([con EXCEPT !.cmd_bfr = r.bfr, !.num_cmd_bfr_chars = 0],
               la, r.lv,
               <<[line |-> line, tokens |-> r.tokens, rc |-> r.rc]>>,
               r.handled, <<Echo(NL)>> \o r.out)

\* After cmd_execute (its status r.rc is dropped): reset the fill count,
\* ask for a prompt.
NewlineDone(con, la, line, r) ==
    ByteResult([con EXCEPT !.cmd_bfr = r.bfr, !.num_cmd_bfr_chars = 0,
                           !.start_of_line = TRUE],
               la, r.lv,
               <<[line |-> line, tokens |-> r.tokens, rc |-> r.rc]>>,
               r.handled, <<Echo(NL)>> \o r.out)

\* c == '\n' || c == '\r': terminate, echo, cmd_execute.
console_newline(con, la, lv, ci) ==
    NewlineDone(con, la, CStr(Terminated(con), 0),
                cmd_execute(ci, lv, Terminated(con)))

\* A backspace that rubs out on the screen only.
console_backspace_deaf(con, la, lv) ==
    ByteResult(con, la, lv, <<>>, <<>>,
               IF con.num_cmd_bfr_chars > 0
               THEN <<Echo(BS), Echo(SPACE), Echo(BS)>> ELSE <<>>)

\* c == '\b' || c == '\x7f'
console_backspace(con, la, lv) ==
    IF con.num_cmd_bfr_chars > 0
    THEN ByteResult([con EXCEPT !.num_cmd_bfr_chars = @ - 1], la, lv, <<>>, <<>>,
                    <<Echo(BS), Echo(SPACE), Echo(BS)>>)
    ELSE ByteResult(con, la, lv, <<>>, <<>>, <<>>)

\* A toggle whose byte also goes into the line buffer.
console_toggle_stored(con, la, lv) ==
    ByteResult([con EXCEPT !.cmd_bfr[con.num_cmd_bfr_chars] = LOG_TOGGLE_CHAR,
                           !.num_cmd_bfr_chars = @ + 1],
               ~la, lv, <<>>, <<>>,
               <<Msg(IF ~la THEN "logging_on" ELSE "logging_off")>>)

\* c == LOG_TOGGLE_CHAR: log_toggle_active(), then the new state is printed.
console_toggle(con, la, lv) ==
    ByteResult(con, ~la, lv, <<>>, <<>>,
               <<Msg(IF ~la THEN "logging_on" ELSE "logging_off")>>)

console_printable_nocheck(con, la, lv, c) ==
    ByteResult([con EXCEPT !.cmd_bfr[con.num_cmd_bfr_chars] = c,
                           !.num_cmd_bfr_chars = @ + 1],
               la, lv, <<>>, <<>>, <<Echo(c)>>)

\* isprint(c): store and echo, or ring the bell when the buffer is full.
console_printable(con, la, lv, c) ==
    IF con.num_cmd_bfr_chars < CONSOLE_CMD_BFR_SIZE - 1
    THEN ByteResult([con EXCEPT !.cmd_bfr[con.num_cmd_bfr_chars] = c,
                                !.num_cmd_bfr_chars = @ + 1],
                    la, lv, <<>>, <<>>, <<Echo(c)>>)
    ELSE ByteResult(con, la, lv, <<>>, <<>>, <<Echo(BEL)>>)

\* The body of console_run's while loop for the byte c.
console_byte(con, la, lv, ci, c) ==
    IF c = NL \/ c = CR
    THEN console_newline(con, la, lv, ci)
    ELSE IF c = BS \/ c = DEL
    THEN console_backspace(con, la, lv)
    ELSE IF c = LOG_TOGGLE_CHAR
    THEN console_toggle(con, la, lv)
    ELSE IF isprint(c)
    THEN console_printable(con, la, lv, c)
    ELSE ByteResult(con, la, lv, <<>>, <<>>, <<>>)

\* The loop body's result r takes effect; control is back at the loop
\* condition.
ConsoleApply(r) ==
    /\ console' = r.con
    /\ log_active' = r.la
    /\ log_levels' = r.lv
    /\ obs' = [obs EXCEPT !.execs = @ \o r.execs,
                          !.handled = @ \o r.handled,
                          !.out = r.out]
    /\ pc' = "console_loop"
    /\ UNCHANGED <<ret, input, client_info>>

\* console_run has a byte c from ttys_getc and runs the loop body on it.
ConsoleGot(c) ==
    ConsoleApply(console_byte(console, log_active, log_levels, client_info, c))

\* ------------------------------------------------------------------------
\* State after load: statics are zero, the UART is in its reset state
\* ------------------------------------------------------------------------
ZeroCfg ==
    [create_stream |-> FALSE, send_cr_after_nl |-> FALSE]

ZeroState ==
    [cfg |-> ZeroCfg,
     stream |-> "NULL",
     fd |-> 0,
     uart_reg_base |-> "NULL",
     rx_buf_get_idx |-> 0,
     rx_buf_put_idx |-> 0,
     tx_buf_get_idx |-> 0,
     tx_buf_put_idx |-> 0,
     tx_buf |-> [i \in 0 .. (TTYS_TX_BUF_SIZE - 1) |-> 0],
     rx_buf |-> [i \in 0 .. (TTYS_RX_BUF_SIZE - 1) |-> 0]]

\* Reset state of a USART: nothing enabled, transmit data register empty.
ResetUart ==
    [RXNEIE |-> FALSE, TXEIE |-> FALSE,
     RXNE |-> FALSE, TXE |-> TRUE, ERR |-> FALSE, RDR |-> 0]

ttys_get_default_cfg ==
    [create_stream |-> TRUE, send_cr_after_nl |-> TRUE]

NullPtr == [null |-> TRUE, val |-> ZeroCfg]

PtrTo(v) == [null |-> FALSE, val |-> v]

RegBaseOf(instance_id) ==
    CASE instance_id = TTYS_INSTANCE_UART1 -> "USART1"
      [] instance_id = TTYS_INSTANCE_UART5 -> "UART5"
      [] instance_id = TTYS_INSTANCE_UART6 -> "USART6"

FdOf(instance_id) ==
    CASE instance_id = TTYS_INSTANCE_UART1 -> UART1_FD
      [] instance_id = TTYS_INSTANCE_UART5 -> UART5_FD
      [] instance_id = TTYS_INSTANCE_UART6 -> UART6_FD

fd_to_instance(fd) ==
    CASE fd = UART1_FD -> TTYS_INSTANCE_UART1
      [] fd = UART5_FD -> TTYS_INSTANCE_UART5
      [] fd = UART6_FD -> TTYS_INSTANCE_UART6
      [] OTHER -> TTYS_NUM_INSTANCES

\* ttys_init keeping what the instance held instead of zeroing it.
ttys_init_nomemset(m, instance_id, cfg) ==
    IF instance_id >= TTYS_NUM_INSTANCES
    THEN [rc |-> SHELL_ERR_BAD_INSTANCE, m |-> m]
    ELSE IF cfg.null
    THEN [rc |-> SHELL_ERR_ARG, m |-> m]
    ELSE LET base == RegBaseOf(instance_id)
             st == [m.states[instance_id] EXCEPT
                       !.cfg = cfg.val,
                       !.uart_reg_base = base,
                       !.fd = FdOf(instance_id),
                       !.stream = IF cfg.val.create_stream THEN "FILE" ELSE "NULL"]
         IN [rc |-> 0,
             m |-> [states |-> [m.states EXCEPT ![instance_id] = st],
                    uart |-> [m.uart EXCEPT ![base].RXNEIE = TRUE,
                                            ![base].TXEIE = TRUE],
                    nvic |-> [m.nvic EXCEPT ![base] = TRUE]]]

\* ttys_init as a function of the machine state m = [states, uart, nvic]:
\* the result carries the return value and the new machine state.  cfg is a
\* pointer: [null |-> TRUE] or [null |-> FALSE, val |-> the configuration].
ttys_init(m, instance_id, cfg) ==
    IF instance_id >= TTYS_NUM_INSTANCES
    THEN [rc |-> SHELL_ERR_BAD_INSTANCE, m |-> m]
    ELSE IF cfg.null
    THEN [rc |-> SHELL_ERR_ARG, m |-> m]
    ELSE LET base == RegBaseOf(instance_id)
             st == [ZeroState EXCEPT
                       !.cfg = cfg.val,
                       !.uart_reg_base = base,
                       !.fd = FdOf(instance_id),
                       !.stream = IF cfg.val.create_stream THEN "FILE" ELSE "NULL"]
         IN [rc |-> 0,
             m |-> [states |-> [m.states EXCEPT ![instance_id] = st],
                    uart |-> [m.uart EXCEPT ![base].RXNEIE = TRUE,
                                            ![base].TXEIE = TRUE],
                    nvic |-> [m.nvic EXCEPT ![base] = TRUE]]]

LoadedMachine ==
    [states |-> [i \in Instances |-> ZeroState],
     uart |-> [b \in RegBases |-> ResetUart],
     nvic |-> [b \in RegBases |-> FALSE]]

\* shell_init(TTYS_INSTANCE_UART1) as main() calls it.
BootedMachine ==
    ttys_init(LoadedMachine, TTYS_INSTANCE_UART1, PtrTo(ttys_get_default_cfg)).m

IdleLoc ==
    [id |-> 0, c |-> NoChar, next_put_idx |-> 0, caller |-> "main",
     data |-> <<>>, idx |-> 0, phase |-> "c", wlog |-> <<>>,
     put0 |-> 0, buf0 |-> ZeroState.tx_buf, get0 |-> 0, arg |-> NullPtr]

NoRet ==
    [op |-> "none", val |-> 0]

EmptyHist ==
    [tdr |-> <<>>, put_ok |-> <<>>, rdr |-> <<>>, got |-> <<>>,
     puts |-> 0, rx |-> 0, gets |-> 0, inits |-> 0, overrun |-> FALSE]

Init ==
    /\ ttys_states = BootedMachine.states
    /\ uart = BootedMachine.uart
    /\ nvic = BootedMachine.nvic
    /\ primask = FALSE
    /\ pc = "idle"
    /\ loc = IdleLoc
    /\ ret = NoRet
    /\ hist = EmptyHist
    /\ input = <<>>
    /\ console = console_init(console_get_default_cfg)
    /\ log_active = TRUE
    /\ client_info = cmd_init
    /\ log_levels = [k \in ClientIds |-> LOG_DEFAULT]
    /\ obs = NoObs

\* The main loop runs unless the CPU spins in Error_Handler.
Running == ~primask

\* ------------------------------------------------------------------------
\* ttys_putc and _write (main loop side of the TX ring)
\* ------------------------------------------------------------------------
\* Entry of ttys_putc for a valid id: next_put_idx is computed from the put
\* index, which only the main loop writes.  put0/buf0 remember the ring as
\* the call found it.
TxNextPutIdx_nowrap(put) ==
    put + 1

\* next_put_idx = tx_buf_put_idx + 1; if (>= TTYS_TX_BUF_SIZE) next_put_idx = 0;
TxNextPutIdx(put) ==
    IF put + 1 >= TTYS_TX_BUF_SIZE THEN 0 ELSE put + 1

putc_begin(l, id, c, caller) ==
    LET put == ttys_states[id].tx_buf_put_idx
    IN [l EXCEPT !.id = id, !.c = c, !.caller = caller,
                 !.next_put_idx = TxNextPutIdx(put),
                 !.put0 = put,
                 !.buf0 = ttys_states[id].tx_buf]

\* _write without the carriage return after a newline.
write_resume_nocr(l) ==
    IF l.idx < Len(l.data)
    THEN /\ pc' = "putc_full"
         /\ loc' = putc_begin([l EXCEPT !.phase = "c", !.idx = @ + 1],
                              l.id, l.data[l.idx + 1], "write")
         /\ UNCHANGED ret
    ELSE /\ pc' = "idle"
         /\ loc' = l
         /\ ret' = [op |-> "_write", val |-> Len(l.data)]

\* The for loop of _write, entered at its start or after a ttys_putc it
\* made has returned: the '\r' after a '\n', the next character, or the end.
write_resume(l) ==
    IF l.phase = "c" /\ l.c = NL /\ ttys_states[l.id].cfg.send_cr_after_nl
    THEN /\ pc' = "putc_full"
         /\ loc' = putc_begin([l EXCEPT !.phase = "cr"], l.id, CR, "write")
         /\ UNCHANGED ret
    ELSE IF l.idx < Len(l.data)
    THEN /\ pc' = "putc_full"
         /\ loc' = putc_begin([l EXCEPT !.phase = "c", !.idx = @ + 1],
                              l.id, l.data[l.idx + 1], "write")
         /\ UNCHANGED ret
    ELSE /\ pc' = "idle"
         /\ loc' = l
         /\ ret' = [op |-> "_write", val |-> Len(l.data)]

\* ttys_putc returns val to whoever called it.
PutcReturn(val) ==
    /\ hist' = [hist EXCEPT !.put_ok = IF val = 0 THEN Append(@, loc.c) ELSE @]
    /\ IF loc.caller = "main"
       THEN /\ pc' = "idle"
            /\ loc' = loc
            /\ ret' = [op |-> "putc", val |-> val]
       ELSE write_resume([loc EXCEPT !.wlog = Append(@, <<loc.c, val>>)])

\* The main loop calls ttys_putc(id, c), id among ids, at most limit times.
PutcCall(ids, limit) ==
    /\ pc = "idle"
    /\ Running
    /\ hist.puts < limit
    /\ \E id \in ids, c \in TxChars :
          /\ hist' = [hist EXCEPT !.puts = @ + 1]
          /\ IF id >= TTYS_NUM_INSTANCES
             THEN /\ pc' = "idle"
                  /\ loc' = [IdleLoc EXCEPT !.id = id, !.c = c]
                  /\ ret' = [op |-> "putc", val |-> SHELL_ERR_BAD_INSTANCE]
             ELSE /\ pc' = "putc_full"
                  /\ loc' = putc_begin(IdleLoc, id, c, "main")
                  /\ UNCHANGED ret
    /\ UNCHANGED <<ttys_states, uart, nvic, primask>>
    /\ UNCHANGED appVars

\* After start-up the main loop transmits on the console's UART, or passes
\* an id that is out of range.
MainPutc ==
    PutcCall({TTYS_INSTANCE_UART1, TTYS_NUM_INSTANCES}, MaxPut)

\* if (next_put_idx == state->tx_buf_get_idx) return SHELL_ERR_BUF_OVERRUN;
PutcFull ==
    /\ pc = "putc_full"
    /\ Running
    /\ IF loc.next_put_idx = ttys_states[loc.id].tx_buf_get_idx
       THEN PutcReturn(SHELL_ERR_BUF_OVERRUN)
       ELSE /\ pc' = "putc_store"
            /\ UNCHANGED <<loc, ret, hist>>
    /\ UNCHANGED <<ttys_states, uart, nvic, primask>>
    /\ UNCHANGED appVars

\* state->tx_buf[state->tx_buf_put_idx] = c;
PutcStore ==
    /\ pc = "putc_store"
    /\ Running
    /\ ttys_states' = [ttys_states EXCEPT
           ![loc.id].tx_buf[ttys_states[loc.id].tx_buf_put_idx] = loc.c]
    /\ pc' = "putc_adv"
    /\ UNCHANGED <<uart, nvic, primask, loc, ret, hist>>
    /\ UNCHANGED appVars

\* state->tx_buf_put_idx = next_put_idx;
PutcAdvValue(l) == l.next_put_idx

PutcAdv ==
    /\ pc = "putc_adv"
    /\ Running
    /\ ttys_states' = [ttys_states EXCEPT ![loc.id].tx_buf_put_idx = PutcAdvValue(loc)]
    /\ pc' = "putc_arm"
    /\ UNCHANGED <<uart, nvic, primask, loc, ret, hist>>
    /\ UNCHANGED appVars

\* A return that leaves the TXE interrupt as it is.
PutcArm_unarmed ==
    /\ pc = "putc_arm"
    /\ Running
    /\ PutcReturn(0)
    /\ UNCHANGED <<ttys_states, uart, nvic, primask>>
    /\ UNCHANGED appVars

\* if (uart_reg_base != NULL) ATOMIC_SET_BIT(CR1, TXEIE); return 0;
PutcArm ==
    /\ pc = "putc_arm"
    /\ Running
    /\ LET base == ttys_states[loc.id].uart_reg_base
       IN uart' = IF base # "NULL" THEN [uart EXCEPT ![base].TXEIE = TRUE] ELSE uart
    /\ PutcReturn(0)
    /\ UNCHANGED <<ttys_states, nvic, primask>>
    /\ UNCHANGED appVars

\* The main loop calls _write(fd, data, len); fd 2 maps to no instance.
MainWrite ==
    /\ pc = "idle"
    /\ Running
    /\ \E fd \in {UART1_FD, 2}, data \in (SeqsUpTo(TxChars, MaxWriteLen) \ {<<>>}) :
          /\ hist.puts + 2 * Len(data) <= MaxPut
          /\ hist' = [hist EXCEPT !.puts = @ + 2 * Len(data)]
          /\ IF fd_to_instance(fd) >= TTYS_NUM_INSTANCES
             THEN /\ pc' = "idle"
                  /\ loc' = [IdleLoc EXCEPT !.data = data]
                  /\ ret' = [op |-> "_write", val |-> -1]
             ELSE write_resume([IdleLoc EXCEPT !.id = fd_to_instance(fd),
                                               !.data = data,
                                               !.caller = "write"])
    /\ UNCHANGED <<ttys_states, uart, nvic, primask>>
    /\ UNCHANGED appVars

\* ------------------------------------------------------------------------
\* The UART and its interrupt
\* ------------------------------------------------------------------------
\* An interrupt request that gets through whatever PRIMASK says.
IrqPending_unmasked(b) ==
    /\ nvic[b]
    /\ \/ uart[b].RXNEIE /\ (uart[b].RXNE \/ uart[b].ERR)
       \/ uart[b].TXEIE /\ uart[b].TXE

\* The interrupt request of a UART reaches the CPU.
IrqPending(b) ==
    /\ nvic[b]
    /\ ~primask
    /\ \/ uart[b].RXNEIE /\ (uart[b].RXNE \/ uart[b].ERR)
       \/ uart[b].TXEIE /\ uart[b].TXE

NextIdx(i, size) ==
    IF i + 1 >= size THEN 0 ELSE i + 1

\* The get index wrapping one slot early.
IsrTxSend_early(st) ==
    [st EXCEPT !.tx_buf_get_idx = NextIdx(@, TTYS_TX_BUF_SIZE - 1)]

\* The get index running on past the end of the buffer.
IsrTxSend_nowrap(st) ==
    [st EXCEPT !.tx_buf_get_idx = @ + 1]

\* ttys_interrupt, branch "else if (isr & USART_ISR_TXE)".
IsrTxSend(st) ==
    [st EXCEPT !.tx_buf_get_idx = NextIdx(@, TTYS_TX_BUF_SIZE)]

\* A handler that switches the TXE interrupt off with every byte it sends.
IsrTx_hasty ==
    /\ IrqPending("USART1")
    /\ LET st == ttys_states[TTYS_INSTANCE_UART1]
           b == st.uart_reg_base
       IN /\ ~uart[b].RXNE
          /\ uart[b].TXE
          /\ IF st.tx_buf_get_idx = st.tx_buf_put_idx
             THEN /\ uart' = [uart EXCEPT ![b].TXEIE = FALSE]
                  /\ UNCHANGED <<ttys_states, hist>>
             ELSE /\ uart' = [uart EXCEPT ![b].TXE = FALSE, ![b].TXEIE = FALSE]
                  /\ hist' = [hist EXCEPT !.tdr = Append(@, st.tx_buf[st.tx_buf_get_idx])]
                  /\ ttys_states' = [ttys_states EXCEPT ![TTYS_INSTANCE_UART1] = IsrTxSend(st)]
    /\ UNCHANGED <<nvic, primask, pc, loc, ret>>
    /\ UNCHANGED appVars

\* ttys_interrupt as the handler of USART1, when no byte was received.
IsrTx ==
    /\ IrqPending("USART1")
    /\ LET st == ttys_states[TTYS_INSTANCE_UART1]
           b == st.uart_reg_base
       IN /\ ~uart[b].RXNE
          /\ uart[b].TXE
          /\ IF st.tx_buf_get_idx = st.tx_buf_put_idx
             THEN /\ uart' = [uart EXCEPT ![b].TXEIE = FALSE]
                  /\ UNCHANGED <<ttys_states, hist>>
             ELSE /\ uart' = [uart EXCEPT ![b].TXE = FALSE]
                  /\ hist' = [hist EXCEPT !.tdr = Append(@, st.tx_buf[st.tx_buf_get_idx])]
                  /\ ttys_states' = [ttys_states EXCEPT ![TTYS_INSTANCE_UART1] = IsrTxSend(st)]
    /\ UNCHANGED <<nvic, primask, pc, loc, ret>>
    /\ UNCHANGED appVars

\* The transmitter has taken the byte out of TDR: TXE is set again.
HwTxEmpty ==
    /\ ~uart["USART1"].TXE
    /\ uart' = [uart EXCEPT !["USART1"].TXE = TRUE]
    /\ UNCHANGED <<ttys_states, nvic, primask, pc, loc, ret, hist>>
    /\ UNCHANGED appVars

NextTx ==
    \/ MainPutc
    \/ MainWrite
    \/ PutcFull
    \/ PutcStore
    \/ PutcAdv
    \/ PutcArm
    \/ IsrTx
    \/ HwTxEmpty

SpecTx == Init /\ [][NextTx]_vars

\* The handler runs when its interrupt is enabled and pending, and the
\* transmitter gets done with the byte it was given.
SpecTxFair == SpecTx /\ WF_vars(IsrTx) /\ WF_vars(HwTxEmpty)

\* ------------------------------------------------------------------------
\* Receive side: the line, the RX branch of the interrupt, ttys_getc
\* ------------------------------------------------------------------------
\* A byte arrives on the line.  With RXNE still set the hardware keeps the
\* old RDR, drops the new byte and flags an overrun error.
HwRx ==
    /\ hist.rx < MaxRx
    /\ \E b \in RxChars :
          uart' = IF uart["USART1"].RXNE
                  THEN [uart EXCEPT !["USART1"].ERR = TRUE]
                  ELSE [uart EXCEPT !["USART1"].RDR = b, !["USART1"].RXNE = TRUE]
    /\ hist' = [hist EXCEPT !.rx = @ + 1,
                            !.overrun = @ \/ uart["USART1"].RXNE]
    /\ UNCHANGED <<ttys_states, nvic, primask, pc, loc, ret>>
    /\ UNCHANGED appVars

\* Reading the data register clears RXNE and, as the handler's comment has
\* it, the error flags.
ReadRDR(u) ==
    [u EXCEPT !.RXNE = FALSE, !.ERR = FALSE]

\* if ((state->rx_buf_put_idx + 1) != state->rx_buf_get_idx)
RxHasRoom(st) ==
    (st.rx_buf_put_idx + 1) # st.rx_buf_get_idx

\* The bytes in the RX ring that ttys_getc has not taken yet.
RxCount(st) ==
    (st.rx_buf_put_idx - st.rx_buf_get_idx) % TTYS_RX_BUF_SIZE

\* A store that pushes the get index along when it catches up with it.
IsrRxStore_pushes(st, rx_data) ==
    [st EXCEPT !.rx_buf[st.rx_buf_put_idx] = rx_data,
               !.rx_buf_put_idx = NextIdx(@, TTYS_RX_BUF_SIZE),
               !.rx_buf_get_idx =
                   IF NextIdx(st.rx_buf_put_idx, TTYS_RX_BUF_SIZE) = @
                   THEN NextIdx(@, TTYS_RX_BUF_SIZE) ELSE @]

\* rx_buf[put] = rx_data; put++; if (put >= TTYS_RX_BUF_SIZE) put = 0;
IsrRxStore(st, rx_data) ==
    [st EXCEPT !.rx_buf[st.rx_buf_put_idx] = rx_data,
               !.rx_buf_put_idx = NextIdx(@, TTYS_RX_BUF_SIZE)]

\* ttys_interrupt, branch "if (isr & USART_ISR_RXNE)"; Error_Handler
\* disables interrupts and never returns.
IsrRx ==
    /\ IrqPending("USART1")
    /\ LET st == ttys_states[TTYS_INSTANCE_UART1]
           b == st.uart_reg_base
           rx_data == uart[b].RDR
       IN /\ uart[b].RXNE
          /\ uart' = [uart EXCEPT ![b] = ReadRDR(@)]
          /\ hist' = [hist EXCEPT !.rdr = Append(@, rx_data),
                                  !.overrun = @ \/ RxCount(st) = TTYS_RX_BUF_SIZE - 1]
          /\ IF RxHasRoom(st)
             THEN /\ ttys_states' = [ttys_states EXCEPT
                                        ![TTYS_INSTANCE_UART1] = IsrRxStore(st, rx_data)]
                  /\ UNCHANGED primask
             ELSE /\ primask' = TRUE
                  /\ UNCHANGED ttys_states
    /\ UNCHANGED <<nvic, pc, loc, ret>>
    /\ UNCHANGED appVars

RxEmpty_never(st) ==
    FALSE

\* if (state->rx_buf_get_idx == state->rx_buf_put_idx) return 0;
RxEmpty(st) ==
    st.rx_buf_get_idx = st.rx_buf_put_idx

\* ttys_getc returns val to whoever called it.
GetcReturn(val) ==
    /\ hist' = [hist EXCEPT !.got = IF val = 1 THEN Append(@, loc'.c) ELSE @]
    /\ IF loc.caller = "console"
       THEN ConsoleGot(loc.c)
       ELSE /\ pc' = "idle"
            /\ ret' = [op |-> "getc", val |-> val]
            /\ UNCHANGED appVars

\* The main loop calls ttys_getc(id, &c): the id check and the empty check.
MainGetc ==
    /\ pc = "idle"
    /\ Running
    /\ hist.gets < MaxGet
    /\ \E id \in {TTYS_INSTANCE_UART1, TTYS_NUM_INSTANCES} :
          IF id >= TTYS_NUM_INSTANCES
          THEN /\ loc' = [IdleLoc EXCEPT !.id = id]
               /\ hist' = [hist EXCEPT !.gets = @ + 1]
               /\ pc' = "idle"
               /\ ret' = [op |-> "getc", val |-> SHELL_ERR_BAD_INSTANCE]
          ELSE IF RxEmpty(ttys_states[id])
          THEN /\ loc' = [IdleLoc EXCEPT !.id = id,
                                         !.get0 = ttys_states[id].rx_buf_get_idx]
               /\ hist' = [hist EXCEPT !.gets = @ + 1]
               /\ pc' = "idle"
               /\ ret' = [op |-> "getc", val |-> 0]
          ELSE /\ loc' = [IdleLoc EXCEPT !.id = id,
                                         !.get0 = ttys_states[id].rx_buf_get_idx]
               /\ hist' = [hist EXCEPT !.gets = @ + 1]
               /\ pc' = "getc_read"
               /\ UNCHANGED ret
    /\ UNCHANGED <<ttys_states, uart, nvic, primask>>
    /\ UNCHANGED appVars

\* *c = state->rx_buf[state->rx_buf_get_idx];
GetcRead ==
    /\ pc = "getc_read"
    /\ Running
    /\ loc' = [loc EXCEPT !.c = ttys_states[loc.id].rx_buf[ttys_states[loc.id].rx_buf_get_idx]]
    /\ pc' = "getc_inc"
    /\ UNCHANGED <<ttys_states, uart, nvic, primask, ret, hist>>
    /\ UNCHANGED appVars

RxNextGetIdx_nowrap(get) ==
    get + 1

\* rx_buf_get_idx++; if (rx_buf_get_idx >= TTYS_RX_BUF_SIZE) rx_buf_get_idx = 0;
RxNextGetIdx(get) ==
    IF get + 1 >= TTYS_RX_BUF_SIZE THEN 0 ELSE get + 1

\* The increment and the wrap as one store of the new index.
GetcInc ==
    /\ pc = "getc_inc"
    /\ Running
    /\ ttys_states' = [ttys_states EXCEPT
                          ![loc.id].rx_buf_get_idx = RxNextGetIdx(@)]
    /\ loc' = loc
    /\ GetcReturn(1)
    /\ UNCHANGED <<uart, nvic, primask>>

\* The increment stored before the wrap is tested: the index is out of
\* range until GetcWrap (the struct is not volatile, so a build may store
\* the index once or twice).
GetcIncStore ==
    /\ pc = "getc_inc"
    /\ Running
    /\ ttys_states[loc.id].rx_buf_get_idx + 1 >= TTYS_RX_BUF_SIZE
    /\ ttys_states' = [ttys_states EXCEPT ![loc.id].rx_buf_get_idx = @ + 1]
    /\ pc' = "getc_wrap"
    /\ UNCHANGED <<uart, nvic, primask, loc, ret, hist>>
    /\ UNCHANGED appVars

GetcWrap ==
    /\ pc = "getc_wrap"
    /\ Running
    /\ ttys_states' = [ttys_states EXCEPT ![loc.id].rx_buf_get_idx = 0]
    /\ loc' = loc
    /\ GetcReturn(1)
    /\ UNCHANGED <<uart, nvic, primask>>

NextRx ==
    \/ HwRx
    \/ IsrRx
    \/ IsrTx
    \/ MainGetc
    \/ GetcRead
    \/ GetcInc
    \/ GetcIncStore
    \/ GetcWrap

SpecRx == Init /\ [][NextRx]_vars

Next ==
    \/ NextTx
    \/ NextRx

Spec == Init /\ [][Next]_vars

\* ------------------------------------------------------------------------
\* The three branches of the interrupt handler
\* ------------------------------------------------------------------------
\* The receiver flags an overrun, noise, framing or parity error, with a
\* byte in RDR or without.
HwError ==
    /\ hist.rx < MaxRx
    /\ ~uart["USART1"].ERR
    /\ uart' = [uart EXCEPT !["USART1"].ERR = TRUE]
    /\ hist' = [hist EXCEPT !.rx = @ + 1]
    /\ UNCHANGED <<ttys_states, nvic, primask, pc, loc, ret>>
    /\ UNCHANGED appVars

\* An error branch that does not look at RXNE and TXE first.
IsrErr_eager ==
    /\ IrqPending("USART1")
    /\ uart["USART1"].ERR
    /\ uart' = [uart EXCEPT !["USART1"].ERR = FALSE]
    /\ UNCHANGED <<ttys_states, nvic, primask, pc, loc, ret, hist>>
    /\ UNCHANGED appVars

\* ttys_interrupt, branch "else if (isr & (ORE | NE | FE | PE))": the data
\* register is read and the value dropped, which by the handler's comment
\* clears the error bits.
IsrErr ==
    /\ IrqPending("USART1")
    /\ LET b == ttys_states[TTYS_INSTANCE_UART1].uart_reg_base
       IN /\ ~uart[b].RXNE
          /\ ~uart[b].TXE
          /\ uart[b].ERR
          /\ uart' = [uart EXCEPT ![b] = ReadRDR(@)]
    /\ UNCHANGED <<ttys_states, nvic, primask, pc, loc, ret, hist>>
    /\ UNCHANGED appVars

\* The main loop transmits on the console's UART, often enough to find the
\* TX ring full.
SystemPutc ==
    PutcCall({TTYS_INSTANCE_UART1}, TTYS_TX_BUF_SIZE)

NextIsr ==
    \/ HwRx
    \/ HwError
    \/ HwTxEmpty
    \/ IsrRx
    \/ IsrTx
    \/ IsrErr
    \/ SystemPutc
    \/ PutcFull
    \/ PutcStore
    \/ PutcAdv
    \/ PutcArm

SpecIsr == Init /\ [][NextIsr]_vars

\* ------------------------------------------------------------------------
\* Start-up: the program as loaded, before and while instances are set up
\* ------------------------------------------------------------------------
InitLoaded ==
    /\ ttys_states = LoadedMachine.states
    /\ uart = LoadedMachine.uart
    /\ nvic = LoadedMachine.nvic
    /\ primask = FALSE
    /\ pc = "idle"
    /\ loc = IdleLoc
    /\ ret = NoRet
    /\ hist = EmptyHist
    /\ input = <<>>
    /\ console = ZeroConsole
    /\ log_active = TRUE
    /\ client_info = cmd_init
    /\ log_levels = [k \in ClientIds |-> LOG_DEFAULT]
    /\ obs = NoObs

\* Before the module is started the user can still put chars in the TX
\* buffer (ttys.h), on any instance.
BootPutc ==
    PutcCall(InstanceArgs, MaxBootPut)

CfgArgs ==
    {NullPtr, PtrTo(ttys_get_default_cfg), PtrTo(ZeroCfg)}

\* The main loop calls ttys_init(id, cfg).  An instance is set up once, so
\* its interrupt is not yet enabled in the NVIC while ttys_init runs and
\* the handler cannot run on that instance inside the call.
MainInit ==
    /\ pc = "idle"
    /\ Running
    /\ hist.inits < MaxInit
    /\ \E id \in InstanceArgs, cfg \in CfgArgs :
          /\ id < TTYS_NUM_INSTANCES => ~nvic[RegBaseOf(id)]
          /\ LET r == ttys_init([states |-> ttys_states, uart |-> uart, nvic |-> nvic],
                                id, cfg)
             IN /\ ttys_states' = r.m.states
                /\ uart' = r.m.uart
                /\ nvic' = r.m.nvic
                /\ ret' = [op |-> "init", val |-> r.rc]
          /\ loc' = [IdleLoc EXCEPT !.id = id, !.arg = cfg]
    /\ hist' = [hist EXCEPT !.inits = @ + 1]
    /\ UNCHANGED <<primask, pc>>
    /\ UNCHANGED appVars

NextInit ==
    \/ BootPutc
    \/ PutcFull
    \/ PutcStore
    \/ PutcAdv
    \/ PutcArm
    \/ MainInit
    \/ IsrTx
    \/ HwTxEmpty

SpecInit == InitLoaded /\ [][NextInit]_vars

\* Input streams that the properties name.
INPUT ==
    [dio_set |-> <<100, 105, 111, 32, 115, 101, 116, 32, 76, 69, 68, 49, 32, 49, 10>>,
     tab |-> <<97, 9, 98, 10>>,
     blank |-> <<32, 32, 10>>]

InputStreams ==
    {INPUT.blank,
     <<97, 32, 98, 32, 99, 32, 100, 32, 101, 32, 102, 32, 103, 32, 104, 32, 105, 32>> \o [i \in 1 .. (CONSOLE_CMD_BFR_SIZE - 19) |-> 122] \o <<NL>>,    \* ten words in CONSOLE_CMD_BFR_SIZE - 1 characters
     INPUT.dio_set,
     <<32, 32, 100, 105, 111, 32, 32, 32, 115, 116, 97, 116, 117, 115, 32, 32, 13>>,    \* "  dio   status  \r"
     INPUT.tab,
     <<97, 32, 98, 32, 99, 32, 100, 32, 101, 32, 102, 32, 103, 32, 104, 32, 105, 32, 106, 32, 107, 10>>,    \* "a b c d e f g h i j k\n"
     <<100, 105, 111, 32, 115, 116, 97, 116, 117, 115, 13, 10>>,    \* "dio status\r\n"
     <<8, 100, 105, 120, 8, 111, 32, 103, 101, 116, 127, 120, 10>>,    \* "\bdix\bo get\x7fx\n"
     <<110, 111, 112, 101, 10, 10, 100, 105, 111, 32, 108, 111, 103, 32, 98, 111, 103, 117, 115, 13, 100, 105, 111, 32, 98, 97, 100, 10>>,    \* "nope\n\ndio log bogus\rdio bad\n"
     <<12, 100, 105, 111, 32, 108, 111, 103, 32, 100, 101, 98, 117, 103, 10, 12>>,    \* "\fdio log debug\n\f"
     <<100, 105, 111, 32>> \o [i \in 1 .. (CONSOLE_CMD_BFR_SIZE - 4) |-> 120] \o <<NL>>    \* "dio " and CONSOLE_CMD_BFR_SIZE - 4 more characters
    }

\* The next typed byte arrives on the line, at any time.  Once a byte has
\* been lost to an overrun nothing more is typed.
HwRxInput ==
    /\ hist.rx < Len(input)
    /\ ~hist.overrun
    /\ uart' = IF uart["USART1"].RXNE
               THEN [uart EXCEPT !["USART1"].ERR = TRUE]
               ELSE [uart EXCEPT !["USART1"].RDR = input[hist.rx + 1],
                                 !["USART1"].RXNE = TRUE]
    /\ hist' = [hist EXCEPT !.rx = @ + 1,
                            !.overrun = @ \/ uart["USART1"].RXNE]
    /\ UNCHANGED <<ttys_states, nvic, primask, pc, loc, ret>>
    /\ UNCHANGED appVars

PollSnapshot ==
    [k |-> RxCount(ttys_states[console.cfg.ttys_instance_id]),
     rdr |-> Len(hist.rdr),
     got |-> Len(hist.got)]

\* console_run() is entered: the prompt, if one is due.  snap is what
\* obs.poll remembers of the entry.
ConsoleEntry(snap) ==
    /\ pc = "idle"
    /\ Running
    /\ IF console.start_of_line
       THEN /\ console' = [console EXCEPT !.start_of_line = FALSE]
            /\ obs' = [obs EXCEPT !.prompts = @ + 1, !.out = <<Msg("prompt")>>,
                                  !.poll = snap]
       ELSE /\ console' = console
            /\ obs' = [obs EXCEPT !.out = <<>>, !.poll = snap]
    /\ pc' = "console_loop"
    /\ loc' = [IdleLoc EXCEPT !.caller = "console"]
    /\ UNCHANGED <<ttys_states, uart, nvic, primask, ret, hist>>
    /\ UNCHANGED <<input, log_active, client_info, log_levels>>

\* The bytes an uninitialised `char c` is tried with.
StaleChars == {0, 97, NL}

\* while (ttys_getc(state.cfg.ttys_instance_id, &c)): the id check and the
\* empty check of ttys_getc.  0 ends console_run; SHELL_ERR_BAD_INSTANCE is
\* non-zero, so the body runs on a c that was never written.
ConsoleLoop ==
    /\ pc = "console_loop"
    /\ Running
    /\ LET id == console.cfg.ttys_instance_id
       IN IF id >= TTYS_NUM_INSTANCES
          THEN /\ \E c \in StaleChars : ConsoleGot(c)
               /\ UNCHANGED <<loc, hist>>
          ELSE IF RxEmpty(ttys_states[id])
          THEN /\ pc' = "idle"
               /\ ret' = [op |-> "console_run", val |-> 0]
               /\ loc' = IdleLoc
               /\ obs' = [obs EXCEPT !.out = <<>>]
               /\ UNCHANGED <<hist, input, console, log_active, client_info, log_levels>>
          ELSE /\ pc' = "getc_read"
               /\ loc' = [IdleLoc EXCEPT !.id = id, !.caller = "console",
                                         !.get0 = ttys_states[id].rx_buf_get_idx]
               /\ obs' = [obs EXCEPT !.out = <<>>]
               /\ UNCHANGED <<ret, hist, input, console, log_active, client_info,
                              log_levels>>
    /\ UNCHANGED <<ttys_states, uart, nvic, primask>>

\* The clients registered at start-up, in order.
RegisteredClients ==
    cmd_register(cmd_register(cmd_init, 1).ci, 2).ci

\* The system after start-up (ttys_init, cmd_init, console_init and the
\* clients' registration), with something about to be typed.
InitConsole ==
    /\ ttys_states = BootedMachine.states
    /\ uart = BootedMachine.uart
    /\ nvic = BootedMachine.nvic
    /\ primask = FALSE
    /\ pc = "idle"
    /\ loc = IdleLoc
    /\ ret = NoRet
    /\ hist = EmptyHist
    /\ input \in InputStreams
    /\ console = console_init(console_get_default_cfg)
    /\ log_active = TRUE
    /\ client_info = RegisteredClients
    /\ log_levels = [k \in ClientIds |-> LOG_DEFAULT]
    /\ obs = NoObs

\* The main loop calls console_run().
ConsolePoll ==
    ConsoleEntry(obs.poll)

\* The same call, with the counts at its entry remembered in obs.poll.
ConsolePollCounted ==
    ConsoleEntry(PollSnapshot)

NextConsole ==
    \/ HwRxInput
    \/ IsrRx
    \/ IsrTx
    \/ ConsolePoll
    \/ ConsoleLoop
    \/ GetcRead
    \/ GetcInc
    \/ GetcIncStore
    \/ GetcWrap

SpecConsole == InitConsole /\ [][NextConsole]_vars

\* console_run is past its entry and moves on to its next statement.  Every
\* step of a call in progress changes pc, and the main loop does nothing
\* but call console_run, so a call in progress goes on unless the CPU is
\* held in Error_Handler.  Such a step stays possible until it is taken or
\* the CPU is halted for good, so strong and weak fairness say the same.
ConsoleStep ==
    /\ pc # "idle"
    /\ Running
    /\ pc' \in {"idle", "console_loop", "getc_read", "getc_inc", "getc_wrap"}

PollStreams ==
    {INPUT.tab, INPUT.blank, <<97, 98, 13, 99, 10>>}

InitPoll ==
    /\ ttys_states = BootedMachine.states
    /\ uart = BootedMachine.uart
    /\ nvic = BootedMachine.nvic
    /\ primask = FALSE
    /\ pc = "idle"
    /\ loc = IdleLoc
    /\ ret = NoRet
    /\ hist = EmptyHist
    /\ input \in PollStreams
    /\ console = console_init(console_get_default_cfg)
    /\ log_active = TRUE
    /\ client_info = RegisteredClients
    /\ log_levels = [k \in ClientIds |-> LOG_DEFAULT]
    /\ obs = NoObs

NextPoll ==
    \/ HwRxInput
    \/ IsrRx
    \/ IsrTx
    \/ ConsolePollCounted
    \/ ConsoleLoop
    \/ GetcRead
    \/ GetcInc
    \/ GetcIncStore
    \/ GetcWrap

SpecPoll == InitPoll /\ [][NextPoll]_vars

SpecPollFair == SpecPoll /\ SF_pc(ConsoleStep)

\* ------------------------------------------------------------------------
\* The whole program: the console on the line and a main loop that also
\* transmits
\* ------------------------------------------------------------------------
\* "ab\rc\n" is typed.
InitSystem ==
    /\ ttys_states = BootedMachine.states
    /\ uart = BootedMachine.uart
    /\ nvic = BootedMachine.nvic
    /\ primask = FALSE
    /\ pc = "idle"
    /\ loc = IdleLoc
    /\ ret = NoRet
    /\ hist = EmptyHist
    /\ input = <<97, 98, 13, 99, 10>>
    /\ console = console_init(console_get_default_cfg)
    /\ log_active = TRUE
    /\ client_info = RegisteredClients
    /\ log_levels = [k \in ClientIds |-> LOG_DEFAULT]
    /\ obs = NoObs

\* The next typed byte arrives on the line, whatever the program does with
\* it, also after a byte was lost and after the CPU has halted.
HwRxLine ==
    /\ hist.rx < Len(input)
    /\ uart' = IF uart["USART1"].RXNE
               THEN [uart EXCEPT !["USART1"].ERR = TRUE]
               ELSE [uart EXCEPT !["USART1"].RDR = input[hist.rx + 1],
                                 !["USART1"].RXNE = TRUE]
    /\ hist' = [hist EXCEPT !.rx = @ + 1,
                            !.overrun = @ \/ uart["USART1"].RXNE]
    /\ UNCHANGED <<ttys_states, nvic, primask, pc, loc, ret>>
    /\ UNCHANGED appVars

NextSystem ==
    \/ HwRxLine
    \/ IsrRx
    \/ IsrTx
    \/ HwTxEmpty
    \/ ConsolePoll
    \/ ConsoleLoop
    \/ GetcRead
    \/ GetcInc
    \/ GetcIncStore
    \/ GetcWrap
    \/ SystemPutc
    \/ PutcFull
    \/ PutcStore
    \/ PutcAdv
    \/ PutcArm

SpecSystem == InitSystem /\ [][NextSystem]_vars

\* ------------------------------------------------------------------------
\* The dispatcher called directly: cmd_register and cmd_execute
\* ------------------------------------------------------------------------
\* Calls of cmd_register followed per run; the table has CMD_MAX_CLIENTS
\* slots, so one more call than that fills it and is refused.
MaxReg == 4

\* A command line as the NUL-terminated buffer handed to cmd_execute.
ToBfr(line) ==
    [i \in 0 .. Len(line) |-> IF i < Len(line) THEN line[i + 1] ELSE 0]

\* cmd_register has returned r.
RegisterApply(k, r) ==
    /\ client_info' = r.ci
    /\ ret' = [op |-> "cmd_register", val |-> r.rc]
    /\ loc' = [IdleLoc EXCEPT !.id = k]
    /\ obs' = [NoObs EXCEPT !.regs = Append(obs.regs, [k |-> k, rc |-> r.rc])]

\* The modules whose registrations are taken in every order: all but the
\* three named as the dispatcher's own words, whose table is in Registries.
Registrants ==
    {k \in ClientIds :
        \A w \in {STR.help, STR.qmark, STR.star} : ~strcaseeq(Clients[k].name, w)}

\* A client module calls cmd_register(&cmd_info).
CmdRegister ==
    /\ pc = "idle"
    /\ Running
    /\ Len(obs.regs) < MaxReg
    /\ \E k \in Registrants : RegisterApply(k, cmd_register(client_info, k))
    /\ UNCHANGED <<ttys_states, uart, nvic, primask, pc, hist>>
    /\ UNCHANGED <<input, console, log_active, log_levels>>

\* cmd_execute has returned r: obs holds what this call did.
ExecuteApply(line, r) ==
    /\ log_levels' = r.lv
    /\ ret' = [op |-> "cmd_execute", val |-> r.rc]
    /\ obs' = [obs EXCEPT !.execs = <<[line |-> line, tokens |-> r.tokens,
                                       rc |-> r.rc]>>,
                          !.handled = r.handled,
                          !.out = r.out]

\* The main loop calls cmd_execute on one of lines.
CmdExecute(lines) ==
    /\ pc = "idle"
    /\ Running
    /\ \E line \in lines :
          ExecuteApply(line, cmd_execute(client_info, log_levels, ToBfr(line)))
    /\ loc' = IdleLoc
    /\ UNCHANGED <<ttys_states, uart, nvic, primask, pc, hist>>
    /\ UNCHANGED <<input, console, log_active, client_info>>

\* Command lines that the properties name.
LN ==
    [tmr_status |-> <<116, 109, 114, 32, 115, 116, 97, 116, 117, 115>>,
     padded |-> <<32, 9, 32, 100, 105, 111, 32, 9, 32, 115, 116, 97, 116, 117, 115, 32, 32>>,
     ten |-> <<100, 105, 111, 32, 115, 101, 116, 32, 97, 32, 97, 32, 97, 32, 97, 32, 97, 32, 97, 32, 97, 32, 97>>,
     star_eleven |-> <<42, 32, 108, 111, 103, 32, 111, 102, 102, 32, 97, 32, 97, 32, 97, 32, 97, 32, 97, 32, 97, 32, 97, 32, 97>>,
     dio |-> <<100, 105, 111>>,
     tmr_log_debug |-> <<116, 109, 114, 32, 108, 111, 103, 32, 100, 101, 98, 117, 103>>,
     star_log_off |-> <<42, 32, 108, 111, 103, 32, 111, 102, 102>>]

LookupLines ==
    {LN.tmr_status,
     <<84, 77, 82, 32, 116, 101, 115, 116>>,    \* "TMR test"
     <<100, 105, 111, 32, 103, 101, 116>>,    \* "dio get"
     <<76, 101, 100, 32, 83, 84, 65, 84, 85, 83>>,    \* "Led STATUS"
     <<97, 100, 99, 32, 115, 116, 97, 116, 117, 115>>,    \* "adc status"
     <<104, 101, 108, 112, 32, 115, 116, 97, 116, 117, 115>>,    \* "help status"
     <<72, 101, 108, 112, 32, 115, 116, 97, 116, 117, 115>>,    \* "Help status"
     <<63, 32, 115, 116, 97, 116, 117, 115>>,    \* "? status"
     <<42, 32, 115, 116, 97, 116, 117, 115>>,    \* "* status"
     <<97, 100, 99, 32, 104, 101, 108, 112>>,    \* "adc help"
     <<97, 100, 99, 32, 63>>,    \* "adc ?"
     <<97, 100, 99, 32, 108, 111, 103>>,    \* "adc log"
     <<97, 100, 99, 32, 108, 111, 103, 32, 111, 102, 102>>    \* "adc log off"
    }

NextRegister ==
    \/ CmdRegister
    \/ CmdExecute(LookupLines)

SpecRegister == Init /\ [][NextRegister]_vars

\* The registry after cmd_init and the registrations of ks in turn.
RECURSIVE RegisterAll(_)
RegisterAll(ks) ==
    IF ks = <<>>
    THEN cmd_init
    ELSE cmd_register(RegisterAll(SubSeq(ks, 1, Len(ks) - 1)), ks[Len(ks)]).ci

\* Nothing registered; dio and tmr; dio, TMR and led; tmr, adc and pwm;
\* the clients named "help", "?" and "*".
Registries ==
    {RegisterAll(ks) :
        ks \in {<<>>, <<1, 2>>, <<1, 3, 4>>, <<2, 5, 6>>, <<7, 8, 9>>}}

CmdLines ==
    {<<>>,    \* ""
     <<32, 32, 32>>,    \* "   "
     LN.padded,
     <<100, 105, 111, 32, 115, 116, 97, 116, 117, 115>>,    \* "dio status"
     <<68, 73, 79, 32, 83, 101, 116, 32, 120>>,    \* "DIO Set x"
     <<116, 109, 114, 32, 116, 101, 115, 116>>,    \* "tmr test"
     LN.ten,
     <<100, 105, 111, 32, 115, 101, 116, 32, 97, 32, 97, 32, 97, 32, 97, 32, 97, 32, 97, 32, 97, 32, 97, 32, 32>>,    \* "dio set a a a a a a a a  "
     <<100, 105, 111, 32, 115, 101, 116, 32, 97, 32, 97, 32, 97, 32, 97, 32, 97, 32, 97, 32, 97, 32, 97, 32, 97>>,    \* "dio set a a a a a a a a a"
     LN.star_eleven,
     <<100, 105, 111, 32, 108, 111, 103, 32, 111, 102, 102, 32, 97, 32, 97, 32, 97, 32, 97, 32, 97, 32, 97, 32, 97, 32, 97>>,    \* "dio log off a a a a a a a a"
     <<102, 111, 111>>,    \* "foo"
     <<102, 111, 111, 32, 115, 116, 97, 116, 117, 115>>,    \* "foo status"
     LN.dio,
     <<100, 105, 111, 32, 98, 111, 103, 117, 115>>,    \* "dio bogus"
     <<116, 109, 114>>,    \* "tmr"
     <<100, 105, 111, 32, 115, 116, 97, 116>>,    \* "dio stat"
     <<100, 105, 111, 32, 108, 111, 103, 32, 100, 101, 98, 117, 103>>,    \* "dio log debug"
     <<100, 105, 111, 32, 108, 111, 103>>,    \* "dio log"
     <<100, 105, 111, 32, 108, 111, 103, 32, 98, 111, 103, 117, 115>>,    \* "dio log bogus"
     <<68, 73, 79, 32, 76, 79, 71, 32, 79, 102, 102>>,    \* "DIO LOG Off"
     LN.tmr_log_debug,
     <<116, 109, 114, 32, 108, 111, 103, 32, 98, 111, 103, 117, 115>>,    \* "tmr log bogus"
     <<116, 109, 114, 32, 108, 111, 103>>,    \* "tmr log"
     <<108, 101, 100, 32, 108, 111, 103, 32, 116, 114, 97, 99, 101>>,    \* "led log trace"
     <<100, 105, 111, 32, 108, 111, 103, 32, 101, 114, 114, 111, 114, 32, 120>>,    \* "dio log error x"
     LN.star_log_off,
     <<42, 32, 108, 111, 103>>,    \* "* log"
     <<42, 32, 108, 111, 103, 32, 98, 111, 103, 117, 115>>,    \* "* log bogus"
     <<42, 32, 108, 111, 103, 32, 111, 102, 102, 32, 120>>,    \* "* log off x"
     <<42, 32, 76, 79, 71, 32, 84, 114, 97, 99, 101>>,    \* "* LOG Trace"
     <<42>>,    \* "*"
     <<42, 32, 102, 111, 111>>,    \* "* foo"
     <<104, 101, 108, 112>>,    \* "help"
     <<63>>,    \* "?"
     <<100, 105, 111, 32, 104, 101, 108, 112>>,    \* "dio help"
     <<100, 105, 111, 32, 63>>,    \* "dio ?"
     <<72, 69, 76, 80, 32, 120>>,    \* "HELP x"
     <<116, 109, 114, 32, 72, 101, 108, 112>>,    \* "tmr Help"
     <<97, 100, 99, 32, 63, 32, 120>>,    \* "adc ? x"
     LN.tmr_status,
     <<84, 77, 82, 32, 116, 101, 115, 116>>,    \* "TMR test"
     <<100, 105, 111, 32, 103, 101, 116>>,    \* "dio get"
     <<76, 101, 100, 32, 83, 84, 65, 84, 85, 83>>,    \* "Led STATUS"
     <<97, 100, 99, 32, 115, 116, 97, 116, 117, 115>>,    \* "adc status"
     <<104, 101, 108, 112, 32, 115, 116, 97, 116, 117, 115>>,    \* "help status"
     <<72, 101, 108, 112, 32, 115, 116, 97, 116, 117, 115>>,    \* "Help status"
     <<63, 32, 115, 116, 97, 116, 117, 115>>,    \* "? status"
     <<42, 32, 115, 116, 97, 116, 117, 115>>,    \* "* status"
     <<97, 100, 99, 32, 104, 101, 108, 112>>,    \* "adc help"
     <<97, 100, 99, 32, 63>>,    \* "adc ?"
     <<97, 100, 99, 32, 108, 111, 103>>,    \* "adc log"
     <<97, 100, 99, 32, 108, 111, 103, 32, 111, 102, 102>>    \* "adc log off"
    }

InitCmd ==
    /\ ttys_states = BootedMachine.states
    /\ uart = BootedMachine.uart
    /\ nvic = BootedMachine.nvic
    /\ primask = FALSE
    /\ pc = "idle"
    /\ loc = IdleLoc
    /\ ret = NoRet
    /\ hist = EmptyHist
    /\ input = <<>>
    /\ console = console_init(console_get_default_cfg)
    /\ log_active = TRUE
    /\ client_info \in Registries
    /\ log_levels = [k \in ClientIds |-> LOG_DEFAULT]
    /\ obs = NoObs

NextCmd ==
    CmdExecute(CmdLines)

SpecCmd == InitCmd /\ [][NextCmd]_vars

\* ------------------------------------------------------------------------
\* The log macros
\* ------------------------------------------------------------------------

\* log_toggle_active(): _log_active = _log_active ? false : true.
log_toggle_active(la) ==
    IF la THEN FALSE ELSE TRUE

\* A macro that prints whatever _log_active says.
log_macro_unflagged(la, log_level, L) ==
    IF log_level >= L THEN <<[k |-> "log", c |-> L]>> ELSE <<>>

\* log_error .. log_trace, expanded in a module whose log_level variable
\* holds log_level: log_printf is called if _log_active is set and
\* log_level >= LOG_<L>.
log_macro(la, log_level, L) ==
    IF la /\ log_level >= L THEN <<[k |-> "log", c |-> L]>> ELSE <<>>

\* The modules with a log_level variable that the dispatcher can reach.
LogModules ==
    {k \in ClientIds : Clients[k].has_log}

\* Somebody toggles logging.
LogToggleActive ==
    /\ pc = "idle"
    /\ Running
    /\ log_active' = log_toggle_active(log_active)
    /\ ret' = [op |-> "log_toggle_active", val |-> 0]
    /\ obs' = [obs EXCEPT !.out = <<>>]
    /\ loc' = IdleLoc
    /\ UNCHANGED <<ttys_states, uart, nvic, primask, pc, hist>>
    /\ UNCHANGED <<input, console, client_info, log_levels>>

\* Module k runs into one of its log macros, of level L in LOG_ERROR ..
\* LOG_TRACE.
LogMacro ==
    /\ pc = "idle"
    /\ Running
    /\ \E k \in LogModules, L \in 1 .. Len(log_level_names) - 1 :
          /\ obs' = [obs EXCEPT !.out = log_macro(log_active, log_levels[k], L)]
          /\ ret' = [op |-> "log_macro", val |-> L]
          /\ loc' = [IdleLoc EXCEPT !.caller = "module", !.id = k]
    /\ UNCHANGED <<ttys_states, uart, nvic, primask, pc, hist>>
    /\ UNCHANGED <<input, console, log_active, client_info, log_levels>>

\* Command lines that set log levels:
\* "dio log off", "dio log error", "dio log debug", "dio log trace", "TMR log warning", "led log trace", "* log off", "* log info".
LogLines ==
    {<<100, 105, 111, 32, 108, 111, 103, 32, 111, 102, 102>>,
     <<100, 105, 111, 32, 108, 111, 103, 32, 101, 114, 114, 111, 114>>,
     <<100, 105, 111, 32, 108, 111, 103, 32, 100, 101, 98, 117, 103>>,
     <<100, 105, 111, 32, 108, 111, 103, 32, 116, 114, 97, 99, 101>>,
     <<84, 77, 82, 32, 108, 111, 103, 32, 119, 97, 114, 110, 105, 110, 103>>,
     <<108, 101, 100, 32, 108, 111, 103, 32, 116, 114, 97, 99, 101>>,
     <<42, 32, 108, 111, 103, 32, 111, 102, 102>>,
     <<42, 32, 108, 111, 103, 32, 105, 110, 102, 111>>}

InitLog ==
    /\ ttys_states = BootedMachine.states
    /\ uart = BootedMachine.uart
    /\ nvic = BootedMachine.nvic
    /\ primask = FALSE
    /\ pc = "idle"
    /\ loc = IdleLoc
    /\ ret = NoRet
    /\ hist = EmptyHist
    /\ input = <<>>
    /\ console = console_init(console_get_default_cfg)
    /\ log_active = TRUE
    /\ client_info = RegisterAll(<<1, 3, 4>>)
    /\ log_levels = [k \in ClientIds |-> LOG_DEFAULT]
    /\ obs = NoObs

NextLog ==
    \/ LogToggleActive
    \/ LogMacro
    \/ CmdExecute(LogLines)

SpecLog == InitLog /\ [][NextLog]_vars

\* ------------------------------------------------------------------------
\* shell_init
\* ------------------------------------------------------------------------

\* a < b for two uint32_t, each given by its 32-bit pattern read as an
\* int32_t: a pattern with the top bit set is the larger number.
uint32_less(a, b) ==
    IF (a < 0) = (b < 0) THEN a < b ELSE b < 0

\* shell_init(ttys_instance) on the ttys machine m, the client table ci and
\* the console state con.  result is a uint32_t.
shell_init(m, ci, con, ttys_instance) ==
    LET r == ttys_init(m, ttys_instance, PtrTo(ttys_get_default_cfg))
    IN IF uint32_less(r.rc, 0)
       THEN [rc |-> r.rc, m |-> r.m, ci |-> ci, con |-> con]
       ELSE [rc |-> 0, m |-> r.m, ci |-> cmd_init,
             con |-> console_init(console_get_default_cfg)]

\* The application calls shell_init, with the console's UART or with an
\* instance out of range.
ShellInit ==
    /\ pc = "idle"
    /\ Running
    /\ \E id \in {TTYS_INSTANCE_UART1, TTYS_NUM_INSTANCES} :
          LET r == shell_init([states |-> ttys_states, uart |-> uart,
                               nvic |-> nvic],
                              client_info, console, id)
          IN /\ ttys_states' = r.m.states
             /\ uart' = r.m.uart
             /\ nvic' = r.m.nvic
             /\ client_info' = r.ci
             /\ console' = r.con
             /\ ret' = [op |-> "shell_init", val |-> r.rc]
             /\ loc' = [IdleLoc EXCEPT !.id = id]
             /\ obs' = [obs EXCEPT !.out = <<>>]
    /\ UNCHANGED <<primask, pc, hist, input, log_active, log_levels>>

\* Before shell_init the statics are zero.
InitShell ==
    /\ ttys_states = LoadedMachine.states
    /\ uart = LoadedMachine.uart
    /\ nvic = LoadedMachine.nvic
    /\ primask = FALSE
    /\ pc = "idle"
    /\ loc = IdleLoc
    /\ ret = NoRet
    /\ hist = EmptyHist
    /\ input = <<>>
    /\ console = ZeroConsole
    /\ log_active = TRUE
    /\ client_info = cmd_init
    /\ log_levels = [k \in ClientIds |-> LOG_DEFAULT]
    /\ obs = NoObs

NextShell ==
    \/ ShellInit
    \/ CmdRegister

SpecShell == InitShell /\ [][NextShell]_vars

\* ------------------------------------------------------------------------
\* cmd_parse_args
\* ------------------------------------------------------------------------
\* The character at position i of a C string, the terminator past its end.
StrAt(str, i) ==
    IF i >= 1 /\ i <= Len(str) THEN str[i] ELSE 0

\* The value of a digit or letter in strtol, 99 for anything else.
DigitVal(c) ==
    IF c >= 48 /\ c <= 57 THEN c - 48
    ELSE IF c >= 97 /\ c <= 122 THEN c - 87
    ELSE IF c >= 65 /\ c <= 90 THEN c - 55
    ELSE 99

\* The first position from i on that holds no digit of the base.
RECURSIVE DigitsEnd(_, _, _)
DigitsEnd(str, i, base) ==
    IF DigitVal(StrAt(str, i)) < base THEN DigitsEnd(str, i + 1, base) ELSE i

\* The number written by the digits at positions i .. e-1.
RECURSIVE DigitsValue(_, _, _, _, _)
DigitsValue(str, i, e, base, acc) ==
    IF i >= e
    THEN acc
    ELSE DigitsValue(str, i + 1, e, base, acc * base + DigitVal(str[i]))

RECURSIVE SkipBlank(_, _)
SkipBlank(str, i) ==
    IF isspace(StrAt(str, i)) THEN SkipBlank(str, i + 1) ELSE i

\* The digits found from position d in base b: the position endptr is
\* left at and the value; with no digit nothing is converted and endptr is
\* the string itself.  A minus sign negates; strtoul negates in unsigned
\* arithmetic, and its value is given as the 32-bit pattern read as an
\* int32_t, so 2^32 - 5 stands as -5.  The tokens tried are a few
\* characters long, far from the values at which a 32-bit long saturates.
StrtoDigits(str, neg, d, e, b) ==
    IF e = d
    THEN [endp |-> 1, val |-> 0]
    ELSE [endp |-> e,
          val |-> IF neg
                  THEN 0 - DigitsValue(str, d, e, b, 0)
                  ELSE DigitsValue(str, d, e, b, 0)]

\* After the sign at q: "0x" before a hex digit selects base 16, a leading
\* "0" base 8 when the base is 0; a "0x" with no hex digit after it is the
\* number 0 followed by 'x'.
StrtoBase(str, neg, q, base) ==
    IF /\ base \in {0, 16}
       /\ StrAt(str, q) = 48
       /\ StrAt(str, q + 1) \in {120, 88}
       /\ DigitVal(StrAt(str, q + 2)) < 16
    THEN StrtoDigits(str, neg, q + 2, DigitsEnd(str, q + 2, 16), 16)
    ELSE IF base = 0 /\ StrAt(str, q) = 48
    THEN StrtoDigits(str, neg, q, DigitsEnd(str, q, 8), 8)
    ELSE IF base = 0
    THEN StrtoDigits(str, neg, q, DigitsEnd(str, q, 10), 10)
    ELSE StrtoDigits(str, neg, q, DigitsEnd(str, q, base), base)

\* The scan that strtol and strtoul share: white space, sign, digits.
StrtoScan(str, p, base) ==
    IF StrAt(str, p) \in {43, 45}
    THEN StrtoBase(str, StrAt(str, p) = 45, p + 1, base)
    ELSE StrtoBase(str, FALSE, p, base)

strtol(str, base) ==
    StrtoScan(str, SkipBlank(str, 1), base)

strtoul(str, base) ==
    StrtoScan(str, SkipBlank(str, 1), base)

\* A null pointer in argv.
NullArg == <<-1>>

\* A field converted with strtol or strtoul: r is the conversion, and the
\* field is refused when *endptr is not the terminator.
RECURSIVE ParseFrom(_, _, _, _, _, _)
ParseNumber(argv, fmt, f, cnt, vals, r) ==
    IF StrAt(argv[cnt + 1], r.endp) # 0
    THEN [rc |-> SHELL_ERR_ARG, vals |-> vals]
    ELSE ParseFrom(argv, fmt, f + 1, cnt + 1, FALSE,
                   Append(vals, [type |-> fmt[f], val |-> r.val]))

\* A field converted whatever its type.
ParseField_lax(argv, fmt, f, cnt, vals) ==
    ParseFrom(argv, fmt, f + 1, cnt + 1, FALSE,
              Append(vals, [type |-> fmt[f], val |-> argv[cnt + 1]]))

\* switch (*fmt)
ParseField(argv, fmt, f, cnt, vals) ==
    IF fmt[f] = 105
    THEN ParseNumber(argv, fmt, f, cnt, vals, strtol(argv[cnt + 1], 0))
    ELSE IF fmt[f] = 117
    THEN ParseNumber(argv, fmt, f, cnt, vals, strtoul(argv[cnt + 1], 0))
    ELSE IF fmt[f] = 112
    THEN ParseNumber(argv, fmt, f, cnt, vals, strtoul(argv[cnt + 1], 16))
    ELSE IF fmt[f] = 115
    THEN ParseFrom(argv, fmt, f + 1, cnt + 1, FALSE,
                   Append(vals, [type |-> fmt[f], val |-> argv[cnt + 1]]))
    ELSE [rc |-> SHELL_ERR_ARG, vals |-> vals]

\* A parser for which ']' opens optional arguments as '[' does.
ParseFrom_sticky(argv, fmt, f, cnt, opt_args, vals) ==
    IF f > Len(fmt)
    THEN [rc |-> IF cnt < Len(argv) THEN SHELL_ERR_BAD_CMD ELSE cnt, vals |-> vals]
    ELSE IF fmt[f] \in {91, 93}
    THEN ParseFrom(argv, fmt, f + 1, cnt, TRUE, vals)
    ELSE IF cnt >= Len(argv)
    THEN [rc |-> IF opt_args THEN cnt ELSE SHELL_ERR_BAD_CMD, vals |-> vals]
    ELSE IF argv[cnt + 1] = NullArg \/ argv[cnt + 1] = <<>>
    THEN [rc |-> SHELL_ERR_BAD_CMD, vals |-> vals]
    ELSE ParseField(argv, fmt, f, cnt, vals)

\* A parser that never lets the arguments run out.
ParseFrom_strict(argv, fmt, f, cnt, opt_args, vals) ==
    IF f > Len(fmt)
    THEN [rc |-> IF cnt < Len(argv) THEN SHELL_ERR_BAD_CMD ELSE cnt, vals |-> vals]
    ELSE IF fmt[f] = 91
    THEN ParseFrom(argv, fmt, f + 1, cnt, TRUE, vals)
    ELSE IF fmt[f] = 93
    THEN ParseFrom(argv, fmt, f + 1, cnt, opt_args, vals)
    ELSE IF cnt >= Len(argv)
    THEN [rc |-> SHELL_ERR_BAD_CMD, vals |-> vals]
    ELSE IF argv[cnt + 1] = NullArg \/ argv[cnt + 1] = <<>>
    THEN [rc |-> SHELL_ERR_BAD_CMD, vals |-> vals]
    ELSE ParseField(argv, fmt, f, cnt, vals)

\* A parser that lets surplus arguments pass.
ParseFrom_surplus(argv, fmt, f, cnt, opt_args, vals) ==
    IF f > Len(fmt)
    THEN [rc |-> cnt, vals |-> vals]
    ELSE IF fmt[f] = 91
    THEN ParseFrom(argv, fmt, f + 1, cnt, TRUE, vals)
    ELSE IF fmt[f] = 93
    THEN ParseFrom(argv, fmt, f + 1, cnt, opt_args, vals)
    ELSE IF cnt >= Len(argv)
    THEN [rc |-> IF opt_args THEN cnt ELSE SHELL_ERR_BAD_CMD, vals |-> vals]
    ELSE IF argv[cnt + 1] = NullArg \/ argv[cnt + 1] = <<>>
    THEN [rc |-> SHELL_ERR_BAD_CMD, vals |-> vals]
    ELSE ParseField(argv, fmt, f, cnt, vals)

\* The loop of cmd_parse_args with fmt at position f, arg_cnt = cnt and
\* vals the slots of arg_vals filled so far; argc is Len(argv).
ParseFrom(argv, fmt, f, cnt, opt_args, vals) ==
    IF f > Len(fmt)
    THEN [rc |-> IF cnt < Len(argv) THEN SHELL_ERR_BAD_CMD ELSE cnt, vals |-> vals]
    ELSE IF fmt[f] = 91
    THEN ParseFrom(argv, fmt, f + 1, cnt, TRUE, vals)
    ELSE IF fmt[f] = 93
    THEN ParseFrom(argv, fmt, f + 1, cnt, opt_args, vals)
    ELSE IF cnt >= Len(argv)
    THEN [rc |-> IF opt_args THEN cnt ELSE SHELL_ERR_BAD_CMD, vals |-> vals]
    ELSE IF argv[cnt + 1] = NullArg \/ argv[cnt + 1] = <<>>
    THEN [rc |-> SHELL_ERR_BAD_CMD, vals |-> vals]
    ELSE ParseField(argv, fmt, f, cnt, vals)

cmd_parse_args(argv, fmt) ==
    ParseFrom(argv, fmt, 1, 0, FALSE, <<>>)

\* The format strings tried.
Formats ==
    {<<>>,    \* ""
     <<105>>,    \* "i"
     <<105, 105>>,    \* "ii"
     <<105, 91, 105>>,    \* "i[i"
     <<105, 91, 105, 93>>,    \* "i[i]"
     <<105, 91, 105, 91, 105>>,    \* "i[i[i"
     <<105, 91, 105, 91, 105, 93, 93>>,    \* "i[i[i]]"
     <<105, 91, 105, 105>>,    \* "i[ii"
     <<105, 91, 105, 105, 93>>,    \* "i[ii]"
     <<91, 105>>,    \* "[i"
     <<91, 105, 105>>,    \* "[ii"
     <<91, 105, 93, 105>>,    \* "[i]i"
     <<115>>,    \* "s"
     <<115, 117>>,    \* "su"
     <<117, 112>>,    \* "up"
     <<115, 91, 117>>,    \* "s[u"
     <<122>>,    \* "z"
     <<105, 91, 122>>    \* "i[z"
    }

\* Arguments for the counting rules: up to MaxArgs of "5", "x", the empty
\* string and a null pointer.
MaxArgs == 3

\* Arguments for the conversions: every string of up to MaxTokenLen
\* characters over TokenAlphabet, one at a time.
MaxTokenLen == 3

TokenAlphabet ==
    {48, 49, 50, 54, 56, 97, 120, 45}

\* The calls tried: a format with some arguments, or a one-letter format
\* with one token.
ParseInputs ==
    {[fmt |-> fmt, argv |-> argv] :
        fmt \in Formats,
        argv \in SeqsUpTo({<<53>>, <<120>>, <<>>, NullArg}, MaxArgs)}
    \cup
    {[fmt |-> fmt, argv |-> <<token>>] :
        fmt \in {<<105>>, <<117>>, <<112>>, <<115>>},
        token \in SeqsUpTo(TokenAlphabet, MaxTokenLen) \ {<<>>}}

\* A handler is about to call cmd_parse_args: obs.parse holds the call.
InitParse ==
    /\ ttys_states = BootedMachine.states
    /\ uart = BootedMachine.uart
    /\ nvic = BootedMachine.nvic
    /\ primask = FALSE
    /\ pc = "idle"
    /\ loc = IdleLoc
    /\ ret = NoRet
    /\ hist = EmptyHist
    /\ input = <<>>
    /\ console = console_init(console_get_default_cfg)
    /\ log_active = TRUE
    /\ client_info = RegisteredClients
    /\ log_levels = [k \in ClientIds |-> LOG_DEFAULT]
    /\ \E call \in ParseInputs :
          obs = [NoObs EXCEPT !.parse = <<[argv |-> call.argv, fmt |-> call.fmt,
                                           rc |-> 0, vals |-> <<>>]>>]

\* cmd_parse_args has returned r.
ParseApply(r) ==
    /\ ret' = [op |-> "cmd_parse_args", val |-> r.rc]
    /\ obs' = [obs EXCEPT !.parse[1].rc = r.rc, !.parse[1].vals = r.vals]

\* The handler calls cmd_parse_args(argc, argv, fmt, arg_vals).
ParseArgs ==
    /\ pc = "idle"
    /\ Running
    /\ ret.op # "cmd_parse_args"
    /\ Len(obs.parse) = 1
    /\ ParseApply(cmd_parse_args(obs.parse[1].argv, obs.parse[1].fmt))
    /\ UNCHANGED <<ttys_states, uart, nvic, primask, pc, loc, hist>>
    /\ UNCHANGED <<input, console, log_active, client_info, log_levels>>

NextParse ==
    ParseArgs

SpecParse == InitParse /\ [][NextParse]_vars

\* ------------------------------------------------------------------------
\* Properties of the TX ring
\* ------------------------------------------------------------------------
\* The live bytes of a ring, oldest first.
RECURSIVE RingContent(_, _, _, _)
RingContent(buf, get, put, size) ==
    IF get = put \/ get \notin DOMAIN buf
    THEN <<>>
    ELSE <<buf[get]>> \o RingContent(buf, NextIdx(get, size), put, size)

Tx == ttys_states[TTYS_INSTANCE_UART1]

\* A step of the main loop (the interrupt handler leaves pc, loc, ret alone).
MainStep == <<pc, loc, ret>>' # <<pc, loc, ret>>

\* The byte of a ttys_putc call that has advanced the put index and is
\* about to return 0.
PutcInFlight ==
    IF pc = "putc_arm" THEN <<loc.c>> ELSE <<>>

\* C1: the bytes written to the transmit data register are a prefix of the
\* bytes ttys_putc accepted (returned 0 for), in the same order: nothing is
\* duplicated, skipped or reordered, and what is not yet sent is what the
\* ring holds.
C1_TxFifo ==
    /\ IsPrefix(hist.tdr, hist.put_ok \o PutcInFlight)
    /\ hist.tdr \o RingContent(Tx.tx_buf, Tx.tx_buf_get_idx, Tx.tx_buf_put_idx,
                                TTYS_TX_BUF_SIZE)
          = hist.put_ok \o PutcInFlight

\* The get index has wrapped: more bytes were sent than the ring has slots.
C1_Witness ==
    /\ Len(hist.tdr) = MaxPut
    /\ hist.tdr = hist.put_ok
    /\ MaxPut > TTYS_TX_BUF_SIZE

TxFull(st) ==
    (st.tx_buf_put_idx + 1) % TTYS_TX_BUF_SIZE = st.tx_buf_get_idx

\* The full check of ttys_putc decides as the ring is when it reads get.
C4_Check ==
    (pc = "putc_full" /\ MainStep) =>
        IF TxFull(ttys_states[loc.id])
        THEN /\ ttys_states' = ttys_states
             /\ hist'.put_ok = hist.put_ok
             /\ loc.caller = "main" => (pc' = "idle" /\ ret'.val = SHELL_ERR_BUF_OVERRUN)
        ELSE pc' = "putc_store"

\* No step of the main loop writes the TX get index.
C4_Frame ==
    MainStep => \A i \in Instances :
        ttys_states'[i].tx_buf_get_idx = ttys_states[i].tx_buf_get_idx

\* What a completed ttys_putc(valid id, c) has done to the ring it found.
C4_Result ==
    (pc = "idle" /\ ret.op = "putc" /\ loc.id < TTYS_NUM_INSTANCES) =>
        LET st == ttys_states[loc.id]
        IN /\ ret.val \in {0, SHELL_ERR_BUF_OVERRUN}
           /\ ret.val = SHELL_ERR_BUF_OVERRUN =>
                 /\ st.tx_buf_put_idx = loc.put0
                 /\ st.tx_buf = loc.buf0
           /\ ret.val = 0 =>
                 /\ st.tx_buf_put_idx = (loc.put0 + 1) % TTYS_TX_BUF_SIZE
                 /\ st.tx_buf = [loc.buf0 EXCEPT ![loc.put0] = loc.c]

\* C4: ttys_putc on a full TX ring returns BufferOverrun (-5) and leaves the
\* put index, the get index and the buffer as they were; on a ring that is
\* not full it returns 0, stores the byte at the old put index and advances
\* put by one modulo the ring size.
C4_PutcContract ==
    [][C4_Check /\ C4_Frame /\ C4_Result']_vars

\* ttys_putc was refused on a ring that is full across the wrap.
C4_Witness ==
    /\ pc = "idle"
    /\ ret = [op |-> "putc", val |-> SHELL_ERR_BUF_OVERRUN]
    /\ loc.id = TTYS_INSTANCE_UART1
    /\ Tx.tx_buf_put_idx = TTYS_TX_BUF_SIZE - 1
    /\ Tx.tx_buf_get_idx = 0

\* ------------------------------------------------------------------------
\* Properties of the RX ring
\* ------------------------------------------------------------------------
Rx == ttys_states[TTYS_INSTANCE_UART1]

\* The byte of a ttys_getc call that has moved the get index past it and
\* has not returned yet.
GetcInFlight ==
    IF pc = "getc_wrap" THEN <<loc.c>> ELSE <<>>

\* The get index as it stands once a pending wrap is done.
RxGet ==
    IF Rx.rx_buf_get_idx >= TTYS_RX_BUF_SIZE THEN 0 ELSE Rx.rx_buf_get_idx

\* C2: as long as the overrun handler has not been invoked, the bytes
\* ttys_getc returned are the bytes read from the receive data register, in
\* arrival order, and every byte read and not yet returned is still in the
\* ring: none is lost, duplicated or reordered.
C2_RxFifo ==
    ~primask =>
        /\ IsPrefix(hist.got, hist.rdr)
        /\ hist.got \o GetcInFlight
              \o RingContent(Rx.rx_buf, RxGet, Rx.rx_buf_put_idx, TTYS_RX_BUF_SIZE)
           = hist.rdr

RxFull(st) ==
    (st.rx_buf_put_idx + 1) % TTYS_RX_BUF_SIZE = st.rx_buf_get_idx % TTYS_RX_BUF_SIZE

\* The interrupt handler has taken a byte out of RDR in this step.
RxIsrStep == Len(hist'.rdr) > Len(hist.rdr)

\* C3: when the RX interrupt finds the ring full, (put+1) mod size = get,
\* for every get including 0, the byte is not stored, put is unchanged and
\* the overrun handler is invoked; a store never makes put equal to get.
C3_RxFullDetect ==
    [][RxIsrStep =>
          IF RxFull(Rx)
          THEN /\ Rx'.rx_buf = Rx.rx_buf
               /\ Rx'.rx_buf_put_idx = Rx.rx_buf_put_idx
               /\ primask'
          ELSE /\ Rx'.rx_buf_put_idx # Rx'.rx_buf_get_idx
               /\ ~primask']_vars

\* The call step of ttys_getc on a valid id: an empty ring returns 0 at
\* once, writes no character and moves no index.
C5_Call ==
    (pc = "idle" /\ MainStep /\ pc' \in {"idle", "getc_read"} /\ hist'.gets > hist.gets
        /\ loc'.id < TTYS_NUM_INSTANCES) =>
        LET st == ttys_states[loc'.id]
        IN IF st.rx_buf_get_idx = st.rx_buf_put_idx
           THEN /\ pc' = "idle"
                /\ ret' = [op |-> "getc", val |-> 0]
                /\ loc'.c = NoChar
                /\ ttys_states' = ttys_states
                /\ hist'.got = hist.got
           ELSE pc' = "getc_read"

\* The character yielded is the byte at the get index.
C5_Read ==
    (pc = "getc_read" /\ MainStep) =>
        /\ loc'.c = ttys_states[loc.id].rx_buf[ttys_states[loc.id].rx_buf_get_idx]
        /\ ttys_states' = ttys_states

\* No step of the main loop writes the RX put index or the RX buffer.
C5_Frame ==
    MainStep => \A i \in Instances :
        /\ ttys_states'[i].rx_buf_put_idx = ttys_states[i].rx_buf_put_idx
        /\ ttys_states'[i].rx_buf = ttys_states[i].rx_buf

\* What a completed ttys_getc(valid id, &c) has done.
C5_Result ==
    (pc = "idle" /\ ret.op = "getc" /\ loc.id < TTYS_NUM_INSTANCES) =>
        LET st == ttys_states[loc.id]
        IN /\ ret.val \in {0, 1}
           /\ ret.val = 0 => (st.rx_buf_get_idx = loc.get0 /\ loc.c = NoChar)
           /\ ret.val = 1 =>
                 /\ st.rx_buf_get_idx = (loc.get0 + 1) % TTYS_RX_BUF_SIZE
                 /\ loc.c # NoChar
                 /\ hist.got[Len(hist.got)] = loc.c

\* C5: ttys_getc on an empty RX ring returns 0 without waiting, does not
\* write the output character and leaves both RX indices unchanged; on a
\* non-empty ring it returns 1, yields the byte at the get index and
\* advances get by one modulo the ring size.
C5_GetcContract ==
    [][C5_Call /\ C5_Read /\ C5_Frame /\ C5_Result']_vars

\* ttys_getc returned the byte of the last slot and wrapped the get index.
C5_Witness ==
    /\ pc = "idle"
    /\ ret = [op |-> "getc", val |-> 1]
    /\ loc.get0 = TTYS_RX_BUF_SIZE - 1
    /\ Rx.rx_buf_get_idx = 0
    /\ loc.c \in RxChars

\* C6: ttys_getc returns the number of characters returned, 0 or 1, for
\* every instance id, an out-of-range one included.
C6_GetcCount ==
    (pc = "idle" /\ ret.op = "getc") => ret.val \in {0, 1}

\* A ttys_init call is made in this step.
InitStep == hist'.inits > hist.inits

WriteDone ==
    /\ pc = "idle"
    /\ ret.op = "_write"
    /\ ret.val >= 0
    /\ ttys_states[loc.id].cfg.send_cr_after_nl

\* C8 as claimed: every newline _write queues is followed by a queued
\* carriage return, at every fill level, and no carriage return is queued
\* for a newline that was not.
C8_AsClaimed ==
    WriteDone =>
        \A i \in 1 .. Len(loc.wlog) :
            /\ loc.wlog[i] = <<NL, 0>> =>
                  (i < Len(loc.wlog) /\ loc.wlog[i + 1] = <<CR, 0>>)
            /\ loc.wlog[i] = <<CR, 0>> =>
                  (i > 1 /\ loc.wlog[i - 1] = <<NL, 0>>)

\* C8 (amended): with send_cr_after_nl, _write calls ttys_putc('\r') right
\* after every ttys_putc('\n'), whatever that call returned, and for no
\* other character; when both calls return 0 the carriage return is the
\* byte queued directly behind the newline.
C8_CrAfterNl ==
    (loc.caller = "write" /\ ttys_states[loc.id].cfg.send_cr_after_nl) =>
        LET w == loc.wlog
            n == Len(w)
        IN /\ \A i \in 1 .. n :
                 /\ (w[i][1] = NL /\ i < n) => w[i + 1][1] = CR
                 /\ w[i][1] = CR => (i > 1 /\ w[i - 1][1] = NL)
           /\ (WriteDone /\ n > 0) => w[n][1] # NL
           /\ (pc = "putc_full" /\ n > 0 /\ w[n][1] = NL) => loc.c = CR
           /\ (n >= 2 /\ w[n - 1] = <<NL, 0>> /\ w[n] = <<CR, 0>>) =>
                 LET k == Len(hist.put_ok)
                     put == ttys_states[loc.id].tx_buf_put_idx
                     buf == ttys_states[loc.id].tx_buf
                 IN /\ k >= 2
                    /\ hist.put_ok[k - 1] = NL
                    /\ hist.put_ok[k] = CR
                    /\ pc # "putc_arm" =>
                          /\ buf[(put + TTYS_TX_BUF_SIZE - 1) % TTYS_TX_BUF_SIZE] = CR
                          /\ buf[(put + TTYS_TX_BUF_SIZE - 2) % TTYS_TX_BUF_SIZE] = NL

\* _write queued a newline and its carriage return.
C8_Witness ==
    /\ WriteDone
    /\ Len(loc.wlog) >= 2
    /\ loc.wlog[Len(loc.wlog) - 1] = <<NL, 0>>
    /\ loc.wlog[Len(loc.wlog)] = <<CR, 0>>

\* ------------------------------------------------------------------------
\* Properties of the console
\* ------------------------------------------------------------------------
\* The positions where a word of str starts.
WordStarts(str) ==
    {i \in 1 .. Len(str) :
        ~isspace(str[i]) /\ (i = 1 \/ isspace(str[i - 1]))}

\* The last position of the word that starts at i.
WordEnd(str, i) ==
    CHOOSE j \in i .. Len(str) :
        /\ \A m \in i .. j : ~isspace(str[m])
        /\ j = Len(str) \/ isspace(str[j + 1])

\* The whitespace-separated words of a string, in order.
Words(str) ==
    LET st == WordStarts(str)
        nth(k) == CHOOSE i \in st : Cardinality({j \in st : j < i}) = k - 1
    IN [k \in 1 .. Cardinality(st) |-> SubSeq(str, nth(k), WordEnd(str, nth(k)))]

\* The input is one line: a '\n' at the end and nowhere else.
OneLine(str) ==
    /\ Len(str) > 0
    /\ str[Len(str)] = NL
    /\ \A i \in 1 .. (Len(str) - 1) : str[i] # NL

LineOf(str) == SubSeq(str, 1, Len(str) - 1)

\* A line of printable characters that fits the line buffer and the token
\* array.
PlainLine(str) ==
    /\ \A i \in 1 .. Len(str) : isprint(str[i])
    /\ Len(str) <= CONSOLE_CMD_BFR_SIZE - 1
    /\ Len(Words(str)) <= MAX_CMD_TOKENS

\* Everything typed has arrived and console_run has returned with the ring
\* drained.
ConsoleDone ==
    /\ hist.rx = Len(input)
    /\ ~uart["USART1"].RXNE
    /\ Rx.rx_buf_get_idx = Rx.rx_buf_put_idx
    /\ pc = "idle"
    /\ ret.op = "console_run"

OneExecOf(str) ==
    /\ Len(obs.execs) <= 1
    /\ ConsoleDone =>
          /\ Len(obs.execs) = 1
          /\ obs.execs[1].tokens = Words(str)

\* C9 as stated: any one line terminated by '\n' that arrives byte by byte
\* with no RX overrun, however the polls of console_run interleave, gives
\* exactly one cmd_execute call whose tokens are the words of the line.
C9_AsClaimed ==
    (OneLine(input) /\ ~hist.overrun) => OneExecOf(LineOf(input))

\* C9, for the lines the console passes on unchanged: a line of printable
\* characters (so no tab, '\r', backspace or toggle character) of at most
\* CONSOLE_CMD_BFR_SIZE - 1 characters and MAX_CMD_TOKENS words, terminated
\* by '\n' and arriving byte by byte with no RX overrun, gives exactly one
\* cmd_execute call, and its tokens are the words of the line in order.
C9_PlainLine ==
    (OneLine(input) /\ PlainLine(LineOf(input)) /\ ~hist.overrun)
        => OneExecOf(LineOf(input))

C9_Witness ==
    /\ input = INPUT.dio_set
    /\ ConsoleDone
    /\ ~hist.overrun
    /\ Len(hist.got) = Len(input)
    /\ Len(obs.execs) = 1
    /\ obs.execs[1].tokens = <<STR.dio, STR.set, <<76, 69, 68, 49>>, <<49>>>>

\* A step in which console_run takes a byte from ttys_getc and processes it.
ConsoleTook ==
    /\ loc.caller = "console"
    /\ pc \in {"getc_inc", "getc_wrap"}
    /\ pc' = "console_loop"

\* The characters in the line buffer.
Accumulated ==
    [i \in 1 .. console.num_cmd_bfr_chars |-> console.cmd_bfr[i - 1]]

C10_Newline ==
    (ConsoleTook /\ loc.c \in {NL, CR}) =>
        /\ Len(obs'.execs) = Len(obs.execs) + 1
        /\ SubSeq(obs'.execs, 1, Len(obs.execs)) = obs.execs
        /\ obs'.execs[Len(obs'.execs)].line = Accumulated
        /\ console'.num_cmd_bfr_chars = 0
        /\ console'.start_of_line

C10_Other ==
    ~(ConsoleTook /\ loc.c \in {NL, CR}) => obs'.execs = obs.execs

PollStart ==
    /\ pc = "idle"
    /\ pc' = "console_loop"

C10_Prompt ==
    /\ obs'.prompts # obs.prompts =>
          /\ PollStart
          /\ console.start_of_line
          /\ ~console'.start_of_line
          /\ obs'.prompts = obs.prompts + 1
    /\ (PollStart /\ console.start_of_line) => obs'.prompts = obs.prompts + 1

\* C10: a step of console_run that consumes '\n' or '\r' hands the
\* accumulated line to cmd_execute exactly once and leaves the fill count 0
\* and start_of_line set, whatever cmd_execute returned; no other step
\* calls cmd_execute; a prompt is printed only at the start of a
\* console_run call that finds start_of_line set, and that clears the flag.
C10_LineDispatch ==
    [][C10_Newline /\ C10_Other /\ C10_Prompt]_vars

C10_Witness ==
    /\ Len(obs.execs) >= 2
    /\ obs.execs[1].rc = SHELL_ERR_BAD_CMD
    /\ obs.execs[1].line = <<110, 111, 112, 101>>
    /\ console.num_cmd_bfr_chars = 0
    /\ console.start_of_line
    /\ obs.prompts >= 2

C11_Printable ==
    (ConsoleTook /\ isprint(loc.c)) =>
        IF console.num_cmd_bfr_chars = CONSOLE_CMD_BFR_SIZE - 1
        THEN /\ console' = console
             /\ obs'.out = <<Echo(BEL)>>
        ELSE /\ console'.cmd_bfr =
                    [console.cmd_bfr EXCEPT ![console.num_cmd_bfr_chars] = loc.c]
             /\ console'.num_cmd_bfr_chars = console.num_cmd_bfr_chars + 1
             /\ obs'.out = <<Echo(loc.c)>>

\* C11: the fill count never exceeds CONSOLE_CMD_BFR_SIZE - 1, so the
\* terminator written on '\n' or '\r' is inside cmd_bfr; a printable byte
\* taken with the fill count at CONSOLE_CMD_BFR_SIZE - 1 is answered with a
\* bell and changes neither the buffer nor the count, any other printable
\* byte is appended and echoed.
C11_Overflow ==
    /\ [](console.num_cmd_bfr_chars <= CONSOLE_CMD_BFR_SIZE - 1)
    /\ [][C11_Printable]_vars

C11_Witness ==
    /\ console.num_cmd_bfr_chars = CONSOLE_CMD_BFR_SIZE - 1
    /\ obs.out = <<Echo(BEL)>>
    /\ pc = "console_loop"

\* console_run never takes more bytes than the ring held when it was
\* called plus those the interrupt handler received since.
C12_NoMore ==
    Len(hist.got) - obs.poll.got <= obs.poll.k + (Len(hist.rdr) - obs.poll.rdr)

\* console_run has returned and the interrupt handler received nothing
\* since it was called: the bytes buffered at the call, and only those,
\* were taken.
C12_Exactly ==
    (pc = "idle" /\ ret.op = "console_run" /\ Len(hist.rdr) = obs.poll.rdr) =>
        /\ Len(hist.got) = obs.poll.got + obs.poll.k
        /\ RxEmpty(Rx)

\* C12 as stated: every call of console_run returns.
C12_AsClaimed ==
    (pc # "idle") ~> (pc = "idle")

\* C12: a call of console_run returns unless the RX interrupt enters
\* Error_Handler during it, which halts the CPU; with k bytes buffered
\* (k = 0 included) and none received during the call it returns having
\* taken exactly those k bytes.
C12_Returns ==
    /\ [](C12_NoMore /\ C12_Exactly)
    /\ (pc # "idle") ~> (pc = "idle" \/ primask)

C12_Witness ==
    /\ pc = "idle"
    /\ ret.op = "console_run"
    /\ ~primask
    /\ obs.poll.k = 2
    /\ Len(hist.rdr) = obs.poll.rdr
    /\ Len(hist.got) = obs.poll.got + 2


\* ------------------------------------------------------------------------
\* Properties of the registry
\* ------------------------------------------------------------------------
\* A name with its upper-case letters lowered.
FoldedName(str) ==
    [i \in 1 .. Len(str) |-> IF str[i] \in 65 .. 90 THEN str[i] + 32 ELSE str[i]]

SameName(a, b) ==
    FoldedName(a) = FoldedName(b)

OccupiedSlots(ci) ==
    {idx \in 0 .. (CMD_MAX_CLIENTS - 1) : ci[idx] # 0}

\* The slots of ci holding a client named as client k is.
SlotsNamed(ci, k) ==
    {idx \in OccupiedSlots(ci) : SameName(Clients[ci[idx]].name, Clients[k].name)}

\* This step is a call of cmd_register.
RegisterStep ==
    Len(obs'.regs) = Len(obs.regs) + 1

\* The accepted registrations under the name of token.
AcceptedAs(token) ==
    {i \in 1 .. Len(obs.regs) :
        obs.regs[i].rc = 0 /\ SameName(Clients[obs.regs[i].k].name, token)}

C13_Replace ==
    (RegisterStep /\ SlotsNamed(client_info, loc'.id) # {}) =>
        /\ ret'.val = 0
        /\ Cardinality(OccupiedSlots(client_info')) =
               Cardinality(OccupiedSlots(client_info))
        /\ \E idx \in SlotsNamed(client_info, loc'.id) :
               client_info' = [client_info EXCEPT ![idx] = loc'.id]

C13_Dispatch ==
    (ret.op = "cmd_execute" /\ obs.handled # <<>>) =>
        LET acc == AcceptedAs(obs.execs[1].tokens[1])
        IN /\ acc # {}
           /\ obs.handled[1].client =
                  obs.regs[CHOOSE i \in acc : \A m \in acc : m <= i].k

\* C13: registering a client under a name that an occupied slot already
\* holds, upper and lower case taken as equal, returns 0, puts the client in
\* that slot and leaves the number of occupied slots as it was; a command
\* line for that name is then handled by the client registered last.
C13_Reregister ==
    /\ [][C13_Replace]_vars
    /\ []C13_Dispatch

\* "tmr" then "TMR" were registered, one slot is occupied, and
\* "tmr status" went to the handler of the second.
C13_Witness ==
    /\ Len(obs.regs) = 2
    /\ obs.regs[1] = [k |-> 2, rc |-> 0]
    /\ obs.regs[2] = [k |-> 3, rc |-> 0]
    /\ Cardinality(OccupiedSlots(client_info)) = 1
    /\ ret.op = "cmd_execute"
    /\ obs.execs[1].line = LN.tmr_status
    /\ obs.handled # <<>>
    /\ obs.handled[1].client = 3


\* The first empty slot of ci; CMD_MAX_CLIENTS when there is none.
FirstEmpty(ci) ==
    IF OccupiedSlots(ci) = 0 .. (CMD_MAX_CLIENTS - 1)
    THEN CMD_MAX_CLIENTS
    ELSE CHOOSE idx \in 0 .. (CMD_MAX_CLIENTS - 1) :
            /\ ci[idx] = 0
            /\ \A m \in 0 .. (idx - 1) : ci[m] # 0

C14_NewName ==
    (RegisterStep /\ SlotsNamed(client_info, loc'.id) = {}) =>
        IF FirstEmpty(client_info) = CMD_MAX_CLIENTS
        THEN /\ ret'.val = SHELL_ERR_RESOURCE
             /\ client_info' = client_info
        ELSE /\ ret'.val = 0
             /\ client_info' =
                    [client_info EXCEPT ![FirstEmpty(client_info)] = loc'.id]

\* The call that first registered the name held by slot idx.
FirstAccepted(idx) ==
    LET acc == AcceptedAs(Clients[client_info[idx]].name)
    IN IF acc = {} THEN 0 ELSE CHOOSE i \in acc : \A m \in acc : i <= m

C14_Order ==
    /\ \A idx \in OccupiedSlots(client_info) :
          /\ \A m \in 0 .. (idx - 1) : m \in OccupiedSlots(client_info)
          /\ FirstAccepted(idx) # 0
    /\ \A i, j \in OccupiedSlots(client_info) :
          i < j => FirstAccepted(i) < FirstAccepted(j)

\* C14: registering a name that no occupied slot holds returns
\* SHELL_ERR_RESOURCE and changes nothing when every slot is occupied, and
\* otherwise returns 0 and fills the first empty slot only; the occupied
\* slots are the first ones of the table, in the order in which their names
\* were first registered.
C14_Capacity ==
    /\ [][C14_NewName]_vars
    /\ []C14_Order

\* Every slot holds a client and one more name has just been refused.
C14_Witness ==
    /\ FirstEmpty(client_info) = CMD_MAX_CLIENTS
    /\ ret = [op |-> "cmd_register", val |-> SHELL_ERR_RESOURCE]
    /\ Len(obs.regs) = CMD_MAX_CLIENTS + 1
    /\ obs.regs[Len(obs.regs)].rc = SHELL_ERR_RESOURCE
    /\ SlotsNamed(client_info, loc.id) = {}


\* ------------------------------------------------------------------------
\* Properties of cmd_execute
\* ------------------------------------------------------------------------
\* cmd_execute has just returned; obs holds what the call did.
Executed ==
    ret.op = "cmd_execute"

ExecutedLine ==
    obs.execs[1].line

ExecutedTokens ==
    obs.execs[1].tokens

\* This step is a call of cmd_execute on a line of n words, for some n in ns.
ExecuteStepOf(ns) ==
    /\ ret'.op = "cmd_execute"
    /\ Len(Words(obs'.execs[1].line)) \in ns

NoSideEffect ==
    /\ log_levels' = log_levels
    /\ client_info' = client_info
    /\ obs'.handled = <<>>

C15_AsClaimed ==
    Executed => ExecutedTokens = Words(ExecutedLine)

C15_Words ==
    (Executed /\ Len(Words(ExecutedLine)) <= MAX_CMD_TOKENS) =>
        ExecutedTokens = Words(ExecutedLine)

C15_NoTokens ==
    ExecuteStepOf({0}) => (ret'.val = 0 /\ NoSideEffect)

\* C15: for a line of at most MAX_CMD_TOKENS words, the tokens of
\* cmd_execute are the maximal whitespace-free non-empty substrings of the
\* line, in order; a line without words returns 0, calls no handler and
\* changes neither the registry nor a log level.
C15_Tokenization ==
    /\ []C15_Words
    /\ [][C15_NoTokens]_vars

\* " \t dio \t status  " was split into "dio" and "status" and handled.
C15_Witness ==
    /\ Executed
    /\ ExecutedLine = LN.padded
    /\ ExecutedTokens = <<STR.dio, STR.status>>
    /\ obs.handled # <<>>

TooManyTokens ==
    <<Msg("too_many_arguments")>>

C16_Cap ==
    Executed =>
        /\ Len(ExecutedTokens) <= MAX_CMD_TOKENS
        /\ \A h \in 1 .. Len(obs.handled) :
              Len(obs.handled[h].argv) <= MAX_CMD_TOKENS
        /\ Len(Words(ExecutedLine)) > MAX_CMD_TOKENS =>
              (ret.val = SHELL_ERR_BAD_CMD /\ obs.out = TooManyTokens)
        /\ Len(Words(ExecutedLine)) = MAX_CMD_TOKENS =>
              (ExecutedTokens = Words(ExecutedLine) /\ obs.out # TooManyTokens)

C16_Rejected ==
    (ret'.op = "cmd_execute" /\ Len(Words(obs'.execs[1].line)) > MAX_CMD_TOKENS)
        => NoSideEffect

\* A line of ten words naming a registered command reaches its handler.
C16_TenHandled ==
    (Executed /\ ExecutedLine = LN.ten /\ client_info[0] = 1) =>
        /\ Len(obs.handled) = 1
        /\ obs.handled[1].argc = MAX_CMD_TOKENS

\* C16: a line of more than MAX_CMD_TOKENS words makes cmd_execute return
\* SHELL_ERR_BAD_CMD with no handler called and no log level changed; a
\* line of exactly MAX_CMD_TOKENS words is tokenized in full and
\* dispatched; tokens[] never holds more than MAX_CMD_TOKENS entries.
C16_TokenCap ==
    /\ [](C16_Cap /\ C16_TenHandled)
    /\ [][C16_Rejected]_vars

\* "* log off" followed by eight more words was refused with dio registered.
C16_Witness ==
    /\ Executed
    /\ ExecutedLine = LN.star_eleven
    /\ ret.val = SHELL_ERR_BAD_CMD
    /\ client_info[0] = 1
    /\ Len(ExecutedTokens) = MAX_CMD_TOKENS


\* The client that a dispatch for token reaches: the first occupied slot
\* under that name, or 0.
ClientNamed(token) ==
    LET hit == {idx \in OccupiedSlots(client_info) :
                   SameName(Clients[client_info[idx]].name, token)}
    IN IF hit = {}
       THEN 0
       ELSE client_info[CHOOSE idx \in hit : \A m \in hit : idx <= m]

\* The first command of client k named as token is, or 0.
CommandNamed(k, token) ==
    LET hit == {j \in 1 .. Len(Clients[k].cmds) :
                   SameName(Clients[k].cmds[j].name, token)}
    IN IF hit = {} THEN 0 ELSE CHOOSE j \in hit : \A m \in hit : j <= m

\* Tokens that cmd_execute handles itself.
BuiltIn(token) ==
    SameName(token, STR.help) \/ token = STR.qmark \/ SameName(token, STR.log)

Global(token) ==
    token = STR.star \/ SameName(token, STR.help) \/ token = STR.qmark

\* The line named a registered client and one of its commands.
NamesCommand ==
    /\ Executed
    /\ Len(ExecutedTokens) >= 2
    /\ Len(Words(ExecutedLine)) <= MAX_CMD_TOKENS
    /\ ~Global(ExecutedTokens[1])
    /\ ClientNamed(ExecutedTokens[1]) # 0
    /\ ~BuiltIn(ExecutedTokens[2])
    /\ CommandNamed(ClientNamed(ExecutedTokens[1]), ExecutedTokens[2]) # 0

\* The handler of the named command was called once with all the tokens.
C17_Invoked ==
    NamesCommand =>
        obs.handled =
            <<[client |-> ClientNamed(ExecutedTokens[1]),
               cmd |-> CommandNamed(ClientNamed(ExecutedTokens[1]),
                                    ExecutedTokens[2]),
               argc |-> Len(ExecutedTokens),
               argv |-> ExecutedTokens]>>

\* C17: when the first token names a registered client and the second one
\* of its commands (not help, ? or log), the handler is called once with
\* the token count and all the tokens, and cmd_execute returns the status
\* the handler returned.
C17_HandlerStatus ==
    /\ C17_Invoked
    /\ NamesCommand =>
          ret.val = Clients[obs.handled[1].client].cmds[obs.handled[1].cmd].rc


\* The command token: the empty string when the line has one token.
CommandToken ==
    IF Len(ExecutedTokens) = 1 THEN <<>> ELSE ExecutedTokens[2]

\* The first token is no registered client, or the command token is none
\* of that client's commands, and neither is handled by cmd_execute itself.
Unrecognized ==
    /\ Executed
    /\ Len(ExecutedTokens) >= 1
    /\ ~Global(ExecutedTokens[1])
    /\ \/ ClientNamed(ExecutedTokens[1]) = 0
       \/ /\ ~BuiltIn(CommandToken)
          /\ CommandNamed(ClientNamed(ExecutedTokens[1]), CommandToken) = 0

C18_Refused ==
    Unrecognized' => (ret'.val = SHELL_ERR_BAD_CMD /\ NoSideEffect)

\* C18: a line whose first token is not *, help or ? and names no
\* registered client, or names one while the second token (empty when
\* there is none) is none of its commands nor help, ? or log, makes
\* cmd_execute return SHELL_ERR_BAD_CMD, call no handler and change no
\* log level.
C18_Unrecognized ==
    [][C18_Refused]_vars

\* "dio" alone was refused with dio registered, after a level was changed.
C18_Witness ==
    /\ Unrecognized
    /\ ExecutedLine = LN.dio
    /\ ClientNamed(STR.dio) = 1
    /\ ret.val = SHELL_ERR_BAD_CMD
    /\ log_levels[1] # LOG_DEFAULT


\* The number of the level named, upper and lower case taken as equal; -1
\* when the name is none of off, error, warning, info, debug, trace.
LevelNamed(token) ==
    LET hit == {l \in 1 .. Len(log_level_names) :
                   SameName(log_level_names[l], token)}
    IN IF hit = {} THEN -1 ELSE (CHOOSE l \in hit : TRUE) - 1

\* "<client> log" or "<client> log <word>" for a registered client.
ClientLogLine ==
    /\ Executed
    /\ Len(ExecutedTokens) \in {2, 3}
    /\ Len(Words(ExecutedLine)) = Len(ExecutedTokens)
    /\ ~Global(ExecutedTokens[1])
    /\ ClientNamed(ExecutedTokens[1]) # 0
    /\ SameName(ExecutedTokens[2], STR.log)

LoggedClient ==
    ClientNamed(ExecutedTokens[1])

\* What the log command does for a client that exposes its level.
LogCommand ==
    /\ obs'.handled = <<>>
    /\ client_info' = client_info
    /\ IF Len(ExecutedTokens') = 2
       THEN ret'.val = 0 /\ log_levels' = log_levels
       ELSE IF LevelNamed(ExecutedTokens'[3]) < 0
       THEN ret'.val = SHELL_ERR_ARG /\ log_levels' = log_levels
       ELSE /\ ret'.val = 0
            /\ log_levels' = [log_levels EXCEPT
                                 ![LoggedClient'] = LevelNamed(ExecutedTokens'[3])]

C19_Step ==
    (ClientLogLine' /\ Clients[LoggedClient'].has_log) => LogCommand

\* With no level exposed the command does nothing and returns 0.
C19_NoLevel ==
    (ClientLogLine' /\ ~Clients[LoggedClient'].has_log) =>
        (ret'.val = 0 /\ NoSideEffect)

\* The statement for every registered client: an unknown level name is
\* refused and nothing but the named client's own level is written.
C19_AnyClient ==
    ClientLogLine' =>
        /\ \A k \in ClientIds :
              k # LoggedClient' => log_levels'[k] = log_levels[k]
        /\ IF Len(ExecutedTokens') = 3 /\ LevelNamed(ExecutedTokens'[3]) < 0
           THEN ret'.val = SHELL_ERR_ARG /\ log_levels' = log_levels
           ELSE ret'.val = 0

C19_AsClaimed ==
    [][C19_AnyClient]_vars

\* C19: for a registered client that exposes its log level, "<client> log
\* <level>" with a known level name, in any case, sets that client's level
\* to the name's index in off, error, warning, info, debug, trace, changes
\* no other level and returns 0; with no third token it returns 0 and
\* changes nothing; an unknown name returns SHELL_ERR_ARG and changes
\* nothing.  For a client that exposes no level each of these lines returns
\* 0 and changes nothing.
C19_ClientLog ==
    /\ [][C19_Step]_vars
    /\ [][C19_NoLevel]_vars

\* "tmr log debug" has set the level of the client registered as TMR to 4
\* and left the others alone.
C19_Witness ==
    /\ ClientLogLine
    /\ ExecutedLine = LN.tmr_log_debug
    /\ LoggedClient = 3
    /\ ret.val = 0
    /\ log_levels = [k \in ClientIds |-> IF k = 3 THEN 4 ELSE LOG_DEFAULT]

\* The clients that "* log <level>" reaches: registered, with a level.
Exposing ==
    {client_info[idx] : idx \in {m \in OccupiedSlots(client_info) :
                                    Clients[client_info[m]].has_log}}

WildcardLogLine ==
    /\ Executed
    /\ Len(ExecutedTokens) \in {2, 3}
    /\ Len(Words(ExecutedLine)) = Len(ExecutedTokens)
    /\ ExecutedTokens[1] = STR.star
    /\ SameName(ExecutedTokens[2], STR.log)

C20_Step ==
    WildcardLogLine' =>
        /\ obs'.handled = <<>>
        /\ client_info' = client_info
        /\ IF Len(ExecutedTokens') = 2
           THEN ret'.val = 0 /\ log_levels' = log_levels
           ELSE LevelNamed(ExecutedTokens'[3]) >= 0 =>
                   /\ ret'.val = 0
                   /\ log_levels' =
                          [k \in ClientIds |->
                              IF k \in Exposing
                              THEN LevelNamed(ExecutedTokens'[3])
                              ELSE log_levels[k]]

\* C20: "* log <level>" with a known level name sets the level of every
\* registered client that exposes one to the name's index, leaves every
\* other level and the registry as they were, and returns 0; "* log"
\* alone changes nothing and returns 0.
C20_WildcardLog ==
    [][C20_Step]_vars

\* "* log off" with dio, TMR, led registered: their levels went from
\* LOG_DEFAULT to 0, the others stayed.
C20_Witness ==
    /\ WildcardLogLine
    /\ ExecutedLine = LN.star_log_off
    /\ ret.val = 0
    /\ Exposing = {1, 3, 4}
    /\ log_levels = [k \in ClientIds |-> IF k \in {1, 3, 4} THEN 0 ELSE LOG_DEFAULT]


\* "* log <word>" with an unknown level name, or "* log" and two or more
\* further words, on a line the tokenizer accepts.
WildcardLogError ==
    /\ Executed
    /\ Len(Words(ExecutedLine)) <= MAX_CMD_TOKENS
    /\ Len(ExecutedTokens) >= 3
    /\ ExecutedTokens[1] = STR.star
    /\ SameName(ExecutedTokens[2], STR.log)
    /\ Len(ExecutedTokens) = 3 => LevelNamed(ExecutedTokens[3]) < 0

C21_Step ==
    WildcardLogError' => (ret'.val = SHELL_ERR_ARG /\ NoSideEffect)

\* C21: "* log <x>" with x no level name, and "* log" followed by more
\* than one further token, return SHELL_ERR_ARG and leave every client's
\* log level as it was.
C21_WildcardErrors ==
    [][C21_Step]_vars

\* "* log bogus" was refused with dio, TMR and led registered and the
\* level of dio away from the default.
C21_Witness ==
    /\ WildcardLogError
    /\ Len(ExecutedTokens) = 3
    /\ ret.val = SHELL_ERR_ARG
    /\ Exposing = {1, 3, 4}
    /\ log_levels[1] = 4
    /\ log_levels[3] = LOG_DEFAULT


HelpWord(token) ==
    SameName(token, STR.help) \/ token = STR.qmark

\* "help" or "?" as the first token of a line the tokenizer accepts.
GlobalHelpLine ==
    /\ Executed
    /\ Len(Words(ExecutedLine)) <= MAX_CMD_TOKENS
    /\ Len(ExecutedTokens) >= 1
    /\ HelpWord(ExecutedTokens[1])

\* "<client> help" or "<client> ?" for a registered client.
ClientHelpLine ==
    /\ Executed
    /\ Len(Words(ExecutedLine)) <= MAX_CMD_TOKENS
    /\ Len(ExecutedTokens) >= 2
    /\ ~Global(ExecutedTokens[1])
    /\ ClientNamed(ExecutedTokens[1]) # 0
    /\ HelpWord(ExecutedTokens[2])

C22_ReadOnly ==
    (GlobalHelpLine' \/ ClientHelpLine') => (ret'.val = 0 /\ NoSideEffect)

\* The occupied slots whose client has a command, and the n-th of them.
ListedSlots ==
    {idx \in OccupiedSlots(client_info) : Len(Clients[client_info[idx]].cmds) > 0}

ListedSlot(n) ==
    CHOOSE idx \in ListedSlots :
        Cardinality({m \in ListedSlots : m < idx}) = n - 1

\* What help prints, from the registry alone.
GlobalHelpText ==
    [n \in 1 .. Cardinality(ListedSlots) |->
        [k |-> "help_client", c |-> client_info[ListedSlot(n)]]]
    \o <<Msg("log_levels_are")>>

ClientHelpText(k) ==
    IF Clients[k].has_log
    THEN <<[k |-> "client_help", c |-> k], Msg("log_help"), Msg("log_levels_are")>>
    ELSE <<[k |-> "client_help", c |-> k]>>

C22_Output ==
    /\ GlobalHelpLine => obs.out = GlobalHelpText
    /\ ClientHelpLine => obs.out = ClientHelpText(ClientNamed(ExecutedTokens[1]))

\* C22: "help", "?", "<client> help" and "<client> ?" return 0, call no
\* handler and change neither the registry nor a log level; what they
\* print depends on the registry alone, so it is the same each time while
\* the registry is; "help" lists the registered clients that have a
\* command, each once, in the order of their slots.
C22_Help ==
    /\ [][C22_ReadOnly]_vars
    /\ []C22_Output

\* "help" with tmr, adc and pwm registered lists tmr and adc, not pwm,
\* which has no command.
C22_Witness ==
    /\ GlobalHelpLine
    /\ ExecutedTokens = <<STR.help>>
    /\ client_info = RegisterAll(<<2, 5, 6>>)
    /\ Len(obs.out) = 3
    /\ obs.out[1].c = 2
    /\ obs.out[2].c = 5
    /\ ret.val = 0


\* ------------------------------------------------------------------------
\* Properties of cmd_parse_args
\* ------------------------------------------------------------------------
\* cmd_parse_args has returned; obs.parse holds the call and its result.
Parsed ==
    ret.op = "cmd_parse_args"

ParsedFmt ==
    obs.parse[1].fmt

ParsedArgv ==
    obs.parse[1].argv

\* The positions of the fields of a format: all but the brackets.
FieldPos(fmt) ==
    {f \in 1 .. Len(fmt) : fmt[f] \notin {91, 93}}

NumFields(fmt) ==
    Cardinality(FieldPos(fmt))

\* The position of the n-th field; 0 for n = 0.
NthField(fmt, n) ==
    IF n = 0
    THEN 0
    ELSE CHOOSE f \in FieldPos(fmt) :
            Cardinality({g \in FieldPos(fmt) : g < f}) = n - 1

\* A '[' stands between the field before the n-th and the n-th.
OptionalAt(fmt, n) ==
    \E b \in (NthField(fmt, n - 1) + 1) .. (NthField(fmt, n) - 1) : fmt[b] = 91

\* The numbers of arguments a format takes: all its fields, or those up to
\* a field that a '[' makes optional.
AcceptedCounts(fmt) ==
    {NumFields(fmt)} \cup
    {n \in 0 .. (NumFields(fmt) - 1) : OptionalAt(fmt, n + 1)}

\* A call whose fields are i, u, p or s and whose arguments are all "5",
\* which each of them converts.
PlainCall ==
    /\ Parsed
    /\ \A f \in 1 .. Len(ParsedFmt) : ParsedFmt[f] \in {105, 117, 112, 115, 91, 93}
    /\ \A a \in 1 .. Len(ParsedArgv) : ParsedArgv[a] = <<53>>

\* The call had format fmt and took the numbers of arguments in counts only.
TakesOnly(fmt, counts) ==
    (PlainCall /\ ParsedFmt = fmt) => (ret.val >= 0 <=> Len(ParsedArgv) \in counts)

\* C23: a format takes as many arguments as it has fields, or as many as
\* the fields before one that a '[' immediately precedes; it returns their
\* number then and SHELL_ERR_BAD_CMD otherwise; ']' changes nothing.  So
\* "i[i" takes 1 or 2, "i[i[i" 1, 2 or 3, "i[ii" 1 or 3 and not 2.
C23_OptionalMarker ==
    /\ PlainCall =>
          IF Len(ParsedArgv) \in AcceptedCounts(ParsedFmt)
          THEN ret.val = Len(ParsedArgv)
          ELSE ret.val = SHELL_ERR_BAD_CMD
    /\ TakesOnly(<<105, 91, 105>>, {1, 2})
    /\ TakesOnly(<<105, 91, 105, 93>>, {1, 2})
    /\ TakesOnly(<<105, 91, 105, 91, 105>>, {1, 2, 3})
    /\ TakesOnly(<<105, 91, 105, 105>>, {1, 3})
    /\ TakesOnly(<<105, 91, 105, 105, 93>>, {1, 3})

\* "i[ii" with two arguments was refused.
C23_Witness ==
    /\ PlainCall
    /\ ParsedFmt = <<105, 91, 105, 105>>
    /\ Len(ParsedArgv) = 2
    /\ ret.val = SHELL_ERR_BAD_CMD


\* Fewer arguments than fields, all of them convertible.
ShortCall ==
    /\ PlainCall
    /\ Len(ParsedArgv) < NumFields(ParsedFmt)

\* Some '[' stands before the n-th field.
MarkerBefore(fmt, n) ==
    \E b \in 1 .. (NthField(fmt, n) - 1) : fmt[b] = 91

C24_AsClaimed ==
    ShortCall =>
        IF MarkerBefore(ParsedFmt, Len(ParsedArgv) + 1)
        THEN ret.val = Len(ParsedArgv)
        ELSE ret.val < 0

\* C24: with fewer arguments than fields, cmd_parse_args returns the number
\* of arguments parsed when a '[' stands directly before the field at which
\* they ran out, with no field between the two, and SHELL_ERR_BAD_CMD in
\* every other case, a '[' earlier in the format or not.
C24_ShortInput ==
    ShortCall =>
        /\ Len(obs.parse[1].vals) = Len(ParsedArgv)
        /\ IF OptionalAt(ParsedFmt, Len(ParsedArgv) + 1)
           THEN ret.val = Len(ParsedArgv)
           ELSE ret.val = SHELL_ERR_BAD_CMD

\* "i[i[i" with two arguments returned 2.
C24_Witness ==
    /\ ShortCall
    /\ ParsedFmt = <<105, 91, 105, 91, 105>>
    /\ Len(ParsedArgv) = 2
    /\ ret.val = 2


\* A call with arguments among "5", "x", the empty string and null.
CountCall ==
    /\ Parsed
    /\ \A a \in 1 .. Len(ParsedArgv) :
          ParsedArgv[a] \in {<<53>>, <<120>>, <<>>, NullArg}

\* An argument that is there to be read.
Present(token) ==
    token # NullArg /\ token # <<>>

\* The first n arguments have a field each that converts them: "5" under
\* i, u, p or s, "x" under s.
GoodPrefix(n) ==
    /\ n <= NumFields(ParsedFmt)
    /\ n <= Len(ParsedArgv)
    /\ \A a \in 1 .. n :
          /\ Present(ParsedArgv[a])
          /\ ParsedFmt[NthField(ParsedFmt, a)] \in {105, 117, 112, 115}
          /\ ParsedArgv[a] = <<53>> \/ ParsedFmt[NthField(ParsedFmt, a)] = 115

TooFew ==
    /\ CountCall
    /\ Len(ParsedArgv) < NumFields(ParsedFmt)
    /\ GoodPrefix(Len(ParsedArgv))
    /\ ~OptionalAt(ParsedFmt, Len(ParsedArgv) + 1)

TooMany ==
    /\ CountCall
    /\ Len(ParsedArgv) > NumFields(ParsedFmt)
    /\ GoodPrefix(NumFields(ParsedFmt))

\* The parser comes to an argument that is null or empty.
AbsentArg ==
    /\ CountCall
    /\ \E a \in 1 .. Len(ParsedArgv) :
          /\ ~Present(ParsedArgv[a])
          /\ a <= NumFields(ParsedFmt)
          /\ GoodPrefix(a - 1)

\* C25: too few arguments for the required fields, more arguments than
\* fields, and an argument that is null or empty each make cmd_parse_args
\* return SHELL_ERR_BAD_CMD; a return value that is not negative is the
\* number of fields parsed and the number of arguments given.
C25_CountErrors ==
    /\ (TooFew \/ TooMany \/ AbsentArg) => ret.val = SHELL_ERR_BAD_CMD
    /\ (Parsed /\ ret.val >= 0) =>
          /\ ret.val = Len(ParsedArgv)
          /\ ret.val = Len(obs.parse[1].vals)

\* "ii" with "5" and a null pointer was refused.
C25_Witness ==
    /\ AbsentArg
    /\ ParsedFmt = <<105, 105>>
    /\ ParsedArgv = <<<<53>>, NullArg>>
    /\ ret.val = SHELL_ERR_BAD_CMD


\* One field, one argument over TokenAlphabet.
TypedCall ==
    /\ Parsed
    /\ Len(ParsedFmt) = 1
    /\ ParsedFmt[1] \in {105, 117, 112, 115}
    /\ Len(ParsedArgv) = 1
    /\ Len(ParsedArgv[1]) >= 1
    /\ \A i \in 1 .. Len(ParsedArgv[1]) : ParsedArgv[1][i] \in TokenAlphabet

\* The value of a hexadecimal digit, 16 for any other character.
HexDigit(c) ==
    CASE c \in 48 .. 57 -> c - 48
      [] c \in 97 .. 102 -> c - 87
      [] c \in 65 .. 70 -> c - 55
      [] OTHER -> 16

\* The characters of str from position i on are digits of the base, and
\* there is one at least.
AllDigits(str, i, base) ==
    /\ i <= Len(str)
    /\ \A j \in i .. Len(str) : HexDigit(str[j]) < base

\* The number those digits write.
RECURSIVE NumeralValue(_, _, _)
NumeralValue(str, i, base) ==
    IF Len(str) < i
    THEN 0
    ELSE NumeralValue(SubSeq(str, 1, Len(str) - 1), i, base) * base
         + HexDigit(str[Len(str)])

IsDecimal(str) ==
    AllDigits(str, 1, 10) /\ str[1] # 48

IsOctal(str) ==
    AllDigits(str, 1, 8) /\ str[1] = 48

IsHex0x(str) ==
    /\ Len(str) >= 3
    /\ str[1] = 48
    /\ str[2] \in {120, 88}
    /\ AllDigits(str, 3, 16)

\* A decimal, 0-prefixed octal or 0x-prefixed hexadecimal numeral.
IntNumeral(str) ==
    IsDecimal(str) \/ IsOctal(str) \/ IsHex0x(str)

IntValue(str) ==
    IF IsHex0x(str) THEN NumeralValue(str, 3, 16)
    ELSE IF IsOctal(str) THEN NumeralValue(str, 1, 8)
    ELSE NumeralValue(str, 1, 10)

\* A hexadecimal numeral, with 0x before it or not.
PtrNumeral(str) ==
    AllDigits(str, 1, 16) \/ IsHex0x(str)

PtrValue(str) ==
    IF IsHex0x(str) THEN NumeralValue(str, 3, 16) ELSE NumeralValue(str, 1, 16)

Negative(str) ==
    Len(str) >= 1 /\ str[1] = 45

\* The token without its minus sign, if it has one.
Unsigned(str) ==
    IF Negative(str) THEN SubSeq(str, 2, Len(str)) ELSE str

\* The field took the token and filled one slot with val, tagged with the
\* format character; or it refused the token.
Took(val) ==
    /\ ret.val = 1
    /\ obs.parse[1].vals = <<[type |-> ParsedFmt[1], val |-> val]>>

Refused ==
    ret.val = SHELL_ERR_ARG

\* What the conversions do: the numeral may have a minus sign before it
\* under i, u and p alike, and the value is negated then.
C26_Conversions ==
    TypedCall =>
        LET token == ParsedArgv[1]
            sign == IF Negative(token) THEN -1 ELSE 1
        IN CASE ParsedFmt[1] \in {105, 117} ->
                  IF IntNumeral(Unsigned(token))
                  THEN Took(sign * IntValue(Unsigned(token)))
                  ELSE Refused
             [] ParsedFmt[1] = 112 ->
                  IF PtrNumeral(Unsigned(token))
                  THEN Took(sign * PtrValue(Unsigned(token)))
                  ELSE Refused
             [] OTHER -> Took(token)

\* C26: field i takes a token if and only if it is a decimal, 0-prefixed
\* octal or 0x-prefixed hexadecimal numeral, with a minus sign or not, and
\* yields its value; field u takes the same numerals without a sign; field
\* p takes a hexadecimal numeral with or without 0x; field s yields the
\* token; a token that is not taken returns SHELL_ERR_ARG, and a filled
\* slot carries the format character.
C26_TypedFields ==
    TypedCall =>
        LET token == ParsedArgv[1]
        IN CASE ParsedFmt[1] = 105 ->
                  IF IntNumeral(Unsigned(token))
                  THEN Took((IF Negative(token) THEN -1 ELSE 1)
                            * IntValue(Unsigned(token)))
                  ELSE Refused
             [] ParsedFmt[1] = 117 ->
                  IF IntNumeral(token) THEN Took(IntValue(token)) ELSE Refused
             [] ParsedFmt[1] = 112 ->
                  IF PtrNumeral(token) THEN Took(PtrValue(token)) ELSE Refused
             [] OTHER -> Took(token)


\* ------------------------------------------------------------------------
\* Properties of the log macros
\* ------------------------------------------------------------------------

\* A module has just run into a log macro.
LogIssued == ret.op = "log_macro"

\* The module, the level of the macro and the level the module is set to.
IssuedBy == loc.id
IssuedLevel == ret.val
ConfiguredLevel == log_levels[IssuedBy]

Emitted == obs.out = <<[k |-> "log", c |-> IssuedLevel]>>
NothingEmitted == obs.out = <<>>

\* C27: a log message of level L (error = 1 .. trace = 5) issued by a module
\* is emitted if and only if logging is active and the module's configured
\* level is at least L, and nothing is emitted otherwise; so with the
\* configured level off (0), or with logging inactive, nothing is emitted.
C27_LogGating ==
    LogIssued =>
        /\ IssuedLevel \in 1 .. 5
        /\ IF log_active /\ ConfiguredLevel >= IssuedLevel
           THEN Emitted
           ELSE NothingEmitted
        /\ (ConfiguredLevel = 0 \/ ~log_active) => NothingEmitted

\* A debug message got out of a module set to debug while another module
\* was still at the default level.
C27_Witness ==
    /\ LogIssued
    /\ IssuedLevel = 4
    /\ ConfiguredLevel = 4
    /\ \E k \in LogModules : log_levels[k] = LOG_DEFAULT
    /\ log_active
    /\ Emitted


\* ------------------------------------------------------------------------
\* Properties of shell_init
\* ------------------------------------------------------------------------

\* What ttys_init returns for the instance shell_init is called with in
\* this step.
TtysInitStatus ==
    ttys_init([states |-> ttys_states, uart |-> uart, nvic |-> nvic],
              loc'.id, PtrTo(ttys_get_default_cfg)).rc

ShellInitStep ==
    /\ pc = "idle"
    /\ ret'.op = "shell_init"

\* C28: shell_init returns 0 for success; when ttys_init fails, shell_init
\* returns that error and initializes neither the cmd nor the console
\* module.
C28_InitStatus ==
    [][ShellInitStep =>
          IF TtysInitStatus = 0
          THEN /\ ret'.val = 0
               /\ client_info' = cmd_init
               /\ console' = console_init(console_get_default_cfg)
          ELSE /\ ret'.val = TtysInitStatus
               /\ client_info' = client_info
               /\ console' = console]_vars

\* What shell_init does: whatever ttys_init returned, the client table and
\* the console are initialized and 0 is returned.
C28_AlwaysZero ==
    [][ShellInitStep =>
          /\ ret'.val = 0
          /\ client_info' = cmd_init
          /\ console' = console_init(console_get_default_cfg)]_vars

\* shell_init was called with an instance out of range while a client was
\* registered: it returned 0 and the client table is empty.
C28_Failing ==
    /\ ret.op = "shell_init"
    /\ loc.id >= TTYS_NUM_INSTANCES
    /\ ret.val = 0
    /\ client_info = cmd_init
    /\ Len(obs.regs) > 0


\* ------------------------------------------------------------------------
\* Properties of the bytes put before ttys_init
\* ------------------------------------------------------------------------

\* The bytes the TX ring of an instance holds.
TxHeld(st) ==
    RingContent(st.tx_buf, st.tx_buf_get_idx, st.tx_buf_put_idx, TTYS_TX_BUF_SIZE)

\* ttys_init of the instance loc'.id returns 0 in this step.
InitSucceeds ==
    /\ pc = "idle"
    /\ hist'.inits = hist.inits + 1
    /\ ret'.val = 0

\* C29: the bytes ttys_putc accepted before ttys_init of the instance stay
\* queued in its TX ring when ttys_init runs, so that they are transmitted
\* in order afterwards.
C29_StayQueued ==
    [][InitSucceeds =>
          TxHeld(ttys_states'[loc'.id]) = TxHeld(ttys_states[loc'.id])]_vars

\* ttys_putc took a byte for UART1 before start-up, ttys_init of UART1 has
\* returned 0, nothing was transmitted and the ring is empty.
C29_Failing ==
    /\ ret.op = "init"
    /\ ret.val = 0
    /\ loc.id = TTYS_INSTANCE_UART1
    /\ hist.inits = 1
    /\ Len(hist.put_ok) = 1
    /\ hist.tdr = <<>>
    /\ TxHeld(Tx) = <<>>


\* ------------------------------------------------------------------------
\* Properties of the two overruns
\* ------------------------------------------------------------------------

\* The receive interrupt has read a byte and found no room for it: it calls
\* Error_Handler.
RxOverrunStep ==
    /\ Len(hist'.rdr) > Len(hist.rdr)
    /\ ttys_states' = ttys_states

\* ttys_putc comes back from its test for a full ring.
TxOverrunStep ==
    /\ pc = "putc_full"
    /\ pc' = "idle"

\* Nothing the program does happens in this step: no byte is read from the
\* receive register, written to the transmit register, handed out by
\* ttys_getc, taken by ttys_putc, edited into the command line or
\* dispatched, and the main loop stays where it is.
ProgramStill ==
    /\ hist'.rdr = hist.rdr
    /\ hist'.tdr = hist.tdr
    /\ hist'.got = hist.got
    /\ hist'.put_ok = hist.put_ok
    /\ ttys_states' = ttys_states
    /\ console' = console
    /\ obs' = obs
    /\ <<log_active, log_levels, client_info>>' = <<log_active, log_levels, client_info>>
    /\ <<pc, loc, ret>>' = <<pc, loc, ret>>
    /\ [b \in RegBases |-> [uart[b] EXCEPT !.RXNE = FALSE, !.ERR = FALSE, !.RDR = 0,
                                            !.TXE = FALSE]]
          = [b \in RegBases |-> [uart'[b] EXCEPT !.RXNE = FALSE, !.ERR = FALSE,
                                                  !.RDR = 0, !.TXE = FALSE]]

\* C30: an overrun found by the receive interrupt disables interrupts, and
\* from then on they stay disabled and the program does nothing more: no
\* byte is received, transmitted, delivered to the console or dispatched;
\* a TX overrun in ttys_putc only returns SHELL_ERR_BUF_OVERRUN to the
\* caller, who goes on running.
C30_Overruns ==
    [][/\ RxOverrunStep => primask'
       /\ primask => primask' /\ ProgramStill
       /\ TxOverrunStep =>
             /\ ret' = [op |-> "putc", val |-> SHELL_ERR_BUF_OVERRUN]
             /\ ~primask'
             /\ hist'.put_ok = hist.put_ok]_vars

\* The CPU is halted after ttys_putc had returned an overrun: the TX ring
\* still holds bytes with the transmitter ready for one, the RX ring holds
\* bytes nobody will fetch, and a byte that came in later waits in the
\* receive register.
C30_Witness ==
    /\ primask
    /\ ret = [op |-> "putc", val |-> SHELL_ERR_BUF_OVERRUN]
    /\ TxHeld(Tx) # <<>>
    /\ uart["USART1"].TXE
    /\ uart["USART1"].TXEIE
    /\ RxCount(Tx) > 0
    /\ uart["USART1"].RXNE


\* ------------------------------------------------------------------------
\* Properties of the logging toggle at the console
\* ------------------------------------------------------------------------

ToggleTaken ==
    ConsoleTook /\ loc.c = LOG_TOGGLE_CHAR

C31_Flip ==
    /\ ToggleTaken =>
          /\ log_active' = ~log_active
          /\ console' = console
          /\ obs'.execs = obs.execs
          /\ obs'.out = <<Msg(IF log_active THEN "logging_off" ELSE "logging_on")>>
    /\ log_active' # log_active => ToggleTaken

\* No line handed to cmd_execute holds the toggle character.
NoToggleInLines ==
    \A n \in 1 .. Len(obs.execs) :
        \A i \in 1 .. Len(obs.execs[n].line) :
            obs.execs[n].line[i] # LOG_TOGGLE_CHAR

\* The toggle characters console_run has taken so far.
TogglesTaken ==
    Cardinality({i \in 1 .. Len(hist.got) : hist.got[i] = LOG_TOGGLE_CHAR})

\* C31: a step of console_run that takes LOG_TOGGLE_CHAR (0x0c) flips
\* _log_active, prints the new state and leaves cmd_bfr, the fill count and
\* start_of_line as they were; no other step changes the flag, so after an
\* even number of toggles it has its original value, and the byte is in no
\* line handed to cmd_execute.
C31_MuteToggle ==
    /\ [](NoToggleInLines /\ (log_active <=> TogglesTaken % 2 = 0))
    /\ [][C31_Flip]_vars

\* Ctrl-L, "dio log debug", Enter, Ctrl-L: two toggles later logging is
\* active again and the line was dispatched without the control bytes.
C31_Witness ==
    /\ TogglesTaken = 2
    /\ log_active
    /\ Len(obs.execs) = 1
    /\ obs.execs[1].line = <<100, 105, 111, 32, 108, 111, 103, 32, 100, 101, 98, 117, 103>>
    /\ pc = "console_loop"


\* ------------------------------------------------------------------------
\* Properties of the TX drain
\* ------------------------------------------------------------------------

TxEmpty == Tx.tx_buf_get_idx = Tx.tx_buf_put_idx

C32_Handler ==
    /\ hist'.tdr # hist.tdr =>
          /\ ~TxEmpty
          /\ hist'.tdr = Append(hist.tdr, Tx.tx_buf[Tx.tx_buf_get_idx])
          /\ Tx'.tx_buf_get_idx = (Tx.tx_buf_get_idx + 1) % TTYS_TX_BUF_SIZE
          /\ Tx'.tx_buf_put_idx = Tx.tx_buf_put_idx
          /\ uart'["USART1"].TXEIE = uart["USART1"].TXEIE
    /\ Tx'.tx_buf_get_idx # Tx.tx_buf_get_idx => hist'.tdr # hist.tdr
    /\ (uart["USART1"].TXEIE /\ ~uart'["USART1"].TXEIE) =>
          /\ TxEmpty
          /\ ttys_states' = ttys_states
          /\ hist'.tdr = hist.tdr

\* C32: with the handler running whenever its interrupt is enabled and
\* pending and the transmitter reporting ready again after each byte, the
\* n-th byte ttys_putc accepted is eventually written to the transmit data
\* register, for every n; a write to the register takes the byte at the get
\* index of a non-empty ring and advances that index by one, and the TXE
\* interrupt is disabled only on an empty ring.
C32_TxDrain ==
    /\ \A n \in 1 .. MaxPut : (Len(hist.put_ok) >= n) ~> (Len(hist.tdr) >= n)
    /\ [][C32_Handler]_vars

\* Accepted bytes have all gone out and the handler has switched its
\* interrupt off on the empty ring.
C32_Witness ==
    /\ Len(hist.put_ok) >= TTYS_TX_BUF_SIZE
    /\ hist.tdr = hist.put_ok
    /\ ~uart["USART1"].TXEIE
    /\ pc = "idle"


\* ------------------------------------------------------------------------
\* Properties of the four ring indices
\* ------------------------------------------------------------------------

\* The four indices of an instance.
Indices(st) ==
    [rx_put |-> st.rx_buf_put_idx, rx_get |-> st.rx_buf_get_idx,
     tx_put |-> st.tx_buf_put_idx, tx_get |-> st.tx_buf_get_idx]

\* The steps of the four operations that can write an index.
TxIsrStep == hist'.tdr # hist.tdr
GetcStep == pc \in {"getc_read", "getc_inc", "getc_wrap"}
PutcStep == pc \in {"putc_full", "putc_store", "putc_adv", "putc_arm"}

\* Of the four indices only those named in keep may differ after the step.
OnlyWrites(keep) ==
    \A f \in DOMAIN Indices(Tx) \ keep : Indices(Tx')[f] = Indices(Tx)[f]

C33_Writers ==
    /\ Indices(Tx').rx_put # Indices(Tx).rx_put => RxIsrStep
    /\ Indices(Tx').rx_get # Indices(Tx).rx_get => GetcStep /\ ~RxIsrStep /\ ~TxIsrStep
    /\ Indices(Tx').tx_put # Indices(Tx).tx_put => PutcStep /\ ~RxIsrStep /\ ~TxIsrStep
    /\ Indices(Tx').tx_get # Indices(Tx).tx_get => TxIsrStep
    /\ RxIsrStep => OnlyWrites({"rx_put"})
    /\ TxIsrStep => OnlyWrites({"tx_get"})
    /\ (GetcStep /\ MainStep) => OnlyWrites({"rx_get"})
    /\ (PutcStep /\ MainStep) => OnlyWrites({"tx_put"})
    /\ \A i \in Instances \ {TTYS_INSTANCE_UART1} : ttys_states'[i] = ttys_states[i]

\* C33: once the instance is initialized, rx_buf_put_idx is written only by
\* the receive branch of the interrupt handler, rx_buf_get_idx only by
\* ttys_getc, tx_buf_put_idx only by ttys_putc and tx_buf_get_idx only by
\* the transmit branch of the handler, and each of the four leaves the other
\* three indices as they were.
C33_SingleWriter ==
    [][C33_Writers]_vars

\* Each of the four indices has been written.
C33_Witness ==
    /\ \A f \in DOMAIN Indices(Tx) : Indices(Tx)[f] # 0
    /\ Len(hist.tdr) > 0
    /\ Len(hist.got) > 0


\* ------------------------------------------------------------------------
\* The line editor against a reference editor
\* ------------------------------------------------------------------------

\* The reference editor: the string after the bytes were typed into an
\* empty line.
RECURSIVE Edited(_)
Edited(bytes) ==
    IF bytes = <<>>
    THEN <<>>
    ELSE LET before == Edited(SubSeq(bytes, 1, Len(bytes) - 1))
             c == bytes[Len(bytes)]
         IN IF c \in 32 .. 126
            THEN IF Len(before) < 79 THEN Append(before, c) ELSE before
            ELSE IF c \in {8, 127} /\ before # <<>>
            THEN SubSeq(before, 1, Len(before) - 1)
            ELSE before

\* The bytes console_run has taken since the last terminator.
SinceTerminator ==
    LET ends == {i \in 1 .. Len(hist.got) : hist.got[i] \in {10, 13}}
        from == IF ends = {} THEN 1
                ELSE 1 + CHOOSE i \in ends : \A j \in ends : j <= i
    IN SubSeq(hist.got, from, Len(hist.got))

C34_Step ==
    /\ (ConsoleTook /\ loc.c \in {10, 13}) =>
          obs'.execs[Len(obs'.execs)].line = Edited(SinceTerminator)
    /\ (ConsoleTook /\ loc.c \in {8, 127} /\ console.num_cmd_bfr_chars = 0) =>
          /\ console' = console
          /\ obs'.out = <<>>
          /\ obs'.execs = obs.execs
          /\ <<log_active, log_levels, client_info>>' = <<log_active, log_levels, client_info>>

\* C34: the line handed to cmd_execute on '\n' or '\r' is what the
\* reference editor makes of the bytes taken since the previous terminator:
\* a printable byte is appended while the line is shorter than 79 and is
\* dropped otherwise, backspace and delete remove the last character if
\* there is one, every other byte leaves the line alone; a backspace or
\* delete on an empty line prints nothing and changes nothing.
C34_RefinesEditor ==
    [][C34_Step]_vars

\* A line that was edited with backspace and delete, on an empty line too,
\* has been dispatched as "dio gex".
C34_Witness ==
    /\ hist.got = <<8, 100, 105, 120, 8, 111, 32, 103, 101, 116, 127, 120, 10>>
    /\ Len(obs.execs) = 1
    /\ obs.execs[1].line = <<100, 105, 111, 32, 103, 101, 120>>


\* ------------------------------------------------------------------------
\* The range of the ring indices
\* ------------------------------------------------------------------------

RxRange == 0 .. (TTYS_RX_BUF_SIZE - 1)
TxRange == 0 .. (TTYS_TX_BUF_SIZE - 1)

\* ttys_getc has stored the incremented get index and has not yet tested
\* it for the wrap.
GetcBetween ==
    /\ pc = "getc_wrap"
    /\ Tx.rx_buf_get_idx = TTYS_RX_BUF_SIZE

\* The index under which the next statement of the main loop reads or
\* writes a ring is inside the buffer; the handler uses rx_buf_put_idx and
\* tx_buf_get_idx, at any time.
AccessesInside ==
    /\ pc = "getc_read" => Tx.rx_buf_get_idx \in RxRange
    /\ pc = "putc_store" => Tx.tx_buf_put_idx \in TxRange
    /\ Tx.rx_buf_put_idx \in RxRange
    /\ Tx.tx_buf_get_idx \in TxRange

\* The four indices are in range in every state.
C35_AsClaimed ==
    /\ Tx.rx_buf_get_idx \in RxRange
    /\ Tx.rx_buf_put_idx \in RxRange
    /\ Tx.tx_buf_get_idx \in TxRange
    /\ Tx.tx_buf_put_idx \in TxRange

\* C35: after ttys_init, under every interleaving of ttys_putc, ttys_getc
\* and the interrupt handler, rx_buf_put_idx is in 0 .. TTYS_RX_BUF_SIZE-1
\* and both TX indices are in 0 .. TTYS_TX_BUF_SIZE-1; rx_buf_get_idx is in
\* range too, except between the increment and the wrap test of ttys_getc,
\* where it may equal TTYS_RX_BUF_SIZE; every ring access is inside its
\* buffer.
C35_IndexRange ==
    /\ Tx.rx_buf_put_idx \in RxRange
    /\ Tx.tx_buf_get_idx \in TxRange
    /\ Tx.tx_buf_put_idx \in TxRange
    /\ Tx.rx_buf_get_idx \in RxRange \/ GetcBetween
    /\ AccessesInside

\* The get index is one past the buffer while a received byte waits for the
\* handler, which will compare against that index.
C35_Witness ==
    /\ GetcBetween
    /\ uart["USART1"].RXNE
    /\ IrqPending("USART1")


\* ------------------------------------------------------------------------
\* The TXE interrupt and the TX ring
\* ------------------------------------------------------------------------

\* The main loop is inside ttys_putc.
InPutc ==
    pc \in {"putc_full", "putc_store", "putc_adv", "putc_arm"}

\* ttys_putc has advanced the put index and is about to set TXEIE; the
\* handler has found the ring empty before and cleared TXEIE.
ArmWindow ==
    /\ pc = "putc_arm"
    /\ ~TxEmpty
    /\ ~uart["USART1"].TXEIE

\* C36: on an initialized instance, whenever the main loop is not inside
\* ttys_putc and the TX ring is not empty, TXEIE is set; inside ttys_putc a
\* non-empty ring with TXEIE clear exists only between the store of the put
\* index and the setting of TXEIE, which follows at once.
C36_NoLostWakeup ==
    /\ (~InPutc /\ ~TxEmpty) => uart["USART1"].TXEIE
    /\ (~TxEmpty /\ ~uart["USART1"].TXEIE) => ArmWindow

\* ttys_putc has returned after the handler had emptied the ring: the new
\* byte is the only one in the ring, everything accepted before it was
\* sent, and the interrupt is enabled and pending.
C36_Witness ==
    /\ pc = "idle"
    /\ ret = [op |-> "putc", val |-> 0]
    /\ Len(hist.tdr) >= 2
    /\ Len(hist.put_ok) = Len(hist.tdr) + 1
    /\ Len(TxHeld(Tx)) = 1
    /\ uart["USART1"].TXEIE
    /\ IrqPending("USART1")


\* ------------------------------------------------------------------------
\* The order in which the interrupt handler looks at the status flags
\* ------------------------------------------------------------------------

Usart == uart["USART1"]

\* What a step of the handler does, told by its effect: the receive branch
\* reads a byte out of RDR, the transmit branch writes one to TDR or clears
\* TXEIE, the error branch clears the error flags without taking a byte.
RxServed == Len(hist'.rdr) > Len(hist.rdr)
TxServed == hist'.tdr # hist.tdr \/ (Usart.TXEIE /\ ~Usart'.TXEIE)
ErrServed == Usart.ERR /\ ~Usart'.ERR /\ ~RxServed

C37_Branches ==
    /\ RxServed => Usart.RXNE /\ ~TxServed
    /\ TxServed => ~Usart.RXNE /\ Usart.TXE /\ ~RxServed /\ Usart'.ERR = Usart.ERR
    /\ ErrServed => ~Usart.RXNE /\ ~Usart.TXE /\ ~TxServed
    /\ (Usart.ERR /\ ~Usart'.ERR /\ Usart.TXE) => RxServed

HandlerCalls ==
    {obs.handled[i] : i \in 1 .. Len(obs.handled)}

\* The line starts with *, help or ?.
FirstIsGlobal ==
    /\ Len(ExecutedTokens) >= 1
    /\ Global(ExecutedTokens[1])

\* The line's second token is help, ? or log.
SecondIsBuiltIn ==
    /\ Len(ExecutedTokens) >= 2
    /\ BuiltIn(ExecutedTokens[2])

\* Some registered client is named *, help or ?.
GlobalNameRegistered ==
    \E idx \in OccupiedSlots(client_info) : Global(Clients[client_info[idx]].name)

\* C38: whatever is registered, a line whose first token is *, help or ?
\* (help in any case), or whose second token is help, ? or log (in any
\* case), calls no handler; so no handler call is ever made on a client
\* named *, help or ?, nor on a command named help, ? or log, whether or not
\* its client exposes a log level.
C38_BuiltInPrecedence ==
    Executed =>
        /\ (FirstIsGlobal \/ SecondIsBuiltIn) => obs.handled = <<>>
        /\ \A h \in HandlerCalls :
              /\ ~Global(Clients[h.client].name)
              /\ ~BuiltIn(Clients[h.client].cmds[h.cmd].name)

\* "adc log" was executed with adc registered: adc exposes no log level
\* and has a command named log, and its handler was not called.
C38_Witness ==
    /\ Executed
    /\ ExecutedTokens = <<STR.adc, STR.log>>
    /\ ClientNamed(STR.adc) # 0
    /\ ~Clients[ClientNamed(STR.adc)].has_log
    /\ CommandNamed(ClientNamed(STR.adc), STR.log) # 0
    /\ obs.handled = <<>>

\* ------------------------------------------------------------------------
\* The shape of the client table
\* ------------------------------------------------------------------------

\* No empty slot precedes an occupied one.
ContiguousPrefix(ci) ==
    \A idx \in OccupiedSlots(ci) : \A m \in 0 .. (idx - 1) : ci[m] # 0

\* No two occupied slots hold the same name, upper and lower case alike.
DistinctNames(ci) ==
    \A a, b \in OccupiedSlots(ci) :
        a # b => ~SameName(Clients[ci[a]].name, Clients[ci[b]].name)

\* The loops of cmd_execute, which stop at the first empty slot, visit
\* every registered client.
LoopsVisitAll(ci) ==
    {VisitedFrom(ci, 0)[i] : i \in 1 .. Len(VisitedFrom(ci, 0))}
        = {ci[idx] : idx \in OccupiedSlots(ci)}

\* C39: after cmd_init and any sequence of cmd_register calls, the
\* occupied slots of the table are a contiguous prefix of it, so that the
\* dispatch loops visit every registered client, and no two of them hold
\* names that are equal case-insensitively.
C39_RegistryShape ==
    /\ ContiguousPrefix(client_info)
    /\ LoopsVisitAll(client_info)
    /\ DistinctNames(client_info)

\* Three registrations were accepted, one of them under a name already in
\* the table: two slots are occupied and the last one is empty.
C39_Witness ==
    /\ Len(obs.regs) = 3
    /\ \A i \in 1 .. Len(obs.regs) : obs.regs[i].rc = 0
    /\ Cardinality(OccupiedSlots(client_info)) = 2
    /\ client_info[0] # 0
    /\ client_info[1] # 0

\* ------------------------------------------------------------------------
\* The wildcard without a command it knows
\* ------------------------------------------------------------------------

\* A line the tokenizer accepts whose first token is "*".
WildcardLine ==
    /\ Executed
    /\ Len(ExecutedTokens) >= 1
    /\ ExecutedTokens[1] = STR.star
    /\ Len(Words(ExecutedLine)) <= MAX_CMD_TOKENS

\* "*" and nothing else.
WildcardAlone ==
    /\ WildcardLine
    /\ Len(ExecutedTokens) = 1

\* "* <x> ..." with x any word but log.
WildcardOther ==
    /\ WildcardLine
    /\ Len(ExecutedTokens) >= 2
    /\ ~SameName(ExecutedTokens[2], STR.log)

C40_Step ==
    /\ WildcardAlone' => (ret'.val = SHELL_ERR_BAD_CMD /\ NoSideEffect)
    /\ WildcardOther' => (ret'.val = 0 /\ NoSideEffect)

\* C40: "*" alone returns SHELL_ERR_BAD_CMD, which is -4, and "* <x>"
\* with x not log in any case returns 0; either way no handler is called
\* and the log levels and the client table stay as they were.
C40_WildcardNoCommand ==
    (SHELL_ERR_BAD_CMD = -4) /\ [][C40_Step]_vars

\* "* status" returned 0 and called no handler, with the client named
\* "*" registered, which has a status command.
C40_Witness ==
    /\ WildcardOther
    /\ ExecutedTokens = <<STR.star, STR.status>>
    /\ ret.val = 0
    /\ obs.handled = <<>>
    /\ ClientNamed(STR.star) # 0
    /\ CommandNamed(ClientNamed(STR.star), STR.status) # 0

====
